---------------------------- MODULE Spec2Model ----------------------------
(***************************************************************************)
(* Volunteer-roster pipeline: process_sheet (grouping, filename            *)
(* derivation, rendering), the export pass with its failure ledger, the    *)
(* retry pass, the contact-repair heuristic and the pagination policy.     *)
(*                                                                         *)
(* Strings that the code inspects character by character are sequences of  *)
(* one-character strings; strings that are only compared are TLA+ strings. *)
(* A spreadsheet cell is a record [t, s, n]: t is the Python type of the   *)
(* value ("none", "str", "int"), s the characters of a str, n the number.  *)
(***************************************************************************)
EXTENDS Integers, Sequences, FiniteSets, TLC

VARIABLES
    pc,                 \* position of the running operation
    ncols,              \* sheet.max_column: width of every row of the sheet
    data,               \* process_sheet: rows of the sheet, header first
    volunteer_records,  \* process_sheet: ordered dict key -> rows
    sorted_keys,        \* process_sheet: keys in rendering order
    next_key,           \* process_sheet: position in sorted_keys
    tab_folder,         \* files of the tab folder: set of [file, doc]
    processed_count,    \* process_sheet: its return value
    save_errors,        \* process_sheet: keys whose save raised
    first_run,          \* process_sheet: what an earlier run on the sheet left
    excel_files,        \* convert_excel_to_pdf: the documents of the tag folder
    max_workers_arg,    \* convert_excel_to_pdf: its argument, 0 for None
    max_workers,        \* convert_excel_to_pdf: size of the worker pool
    batches,            \* convert_excel_to_pdf: the batches of excel_files
    workers,            \* one record per batch: the state of process_batch
    counter,            \* AtomicCounter.value
    success_count,      \* convert_excel_to_pdf: its results
    error_count,
    failed_files,
    pdfs,               \* file names whose PDF exists in the output folder
    ledger,             \* failed_list_<tab>.xlsx: its rows, <<>> when absent
    source_docs,        \* retry: the documents present in the source folder
    retry_failed_files, \* retry: failed_files, as collect_failed_files returns it
    file_pos,           \* retry: position of the loop in retry_failed_files
    attempt,            \* retry: attempts made on the current file
    still_failed_files, \* retry: its list of the same name
    retry_success_count, \* retry: success_count of the tag
    total_files,        \* retry: totals of the pass
    total_success,
    total_still_failed,
    succeeded,          \* retry: the file names converted in this pass
    pass,               \* number of retry passes run so far
    update_raised,      \* the last update_failed_list caught an exception
    read_raised,        \* the last collect_failed_files caught an exception
    attempt_log,        \* retry: per position of retry_failed_files, the results
                        \* of the attempts made on it in this pass
    converter,          \* page setup: the function that sets up the pages
    last_row,           \* page setup: last row of the sheet's used range
    fit_to_pages_tall,  \* page setup: sheet.PageSetup.FitToPagesTall
    conv,               \* one conversion: its session, workbook, backend calls
                        \* and result
    mobile,             \* contact repair: df[mobile_col]
    mobile_before,      \* contact repair: the column before the last repair
    modified,           \* contact repair: the flag of the last repair
    applied,            \* contact repair: number of repairs applied
    doc_file,           \* retry attempt: the rows of the document given to it
    handed_file,        \* retry attempt: the rows of the file Workbooks.Open gets
    input_file,         \* create_volunteer_sheets: the name of the file it is given
    input_file_path,    \* create_volunteer_sheets: the name it goes on with
    district_name,      \* create_volunteer_sheets: the district name
    excels_folder,      \* create_volunteer_sheets: the output folder
    folders,            \* the folders below the directory of the scripts
    ledger_files,       \* the paths of the ledger files on disk
    export_log,         \* export pass: per ledger written, its folders
    failed_list_files,  \* retry pass: the ledger paths it has found
    retry_log,          \* retry pass: per ledger found, the folders derived
    repair_log          \* repair_corrupted_files: the repairs made

sheetVars == <<pc, ncols, data, volunteer_records, sorted_keys, next_key,
               tab_folder, processed_count, save_errors, first_run>>

exportVars == <<excel_files, max_workers_arg, max_workers, batches, workers, counter,
                success_count, error_count, failed_files, pdfs, ledger>>

retryVars == <<source_docs, retry_failed_files, file_pos, attempt,
               still_failed_files, retry_success_count, total_files,
               total_success, total_still_failed, succeeded, pass, update_raised,
               read_raised, attempt_log>>

pageVars == <<converter, last_row, fit_to_pages_tall, conv>>

contactVars == <<mobile, mobile_before, modified, applied, doc_file, handed_file>>

fileVars == <<input_file, input_file_path, district_name, excels_folder, folders,
              ledger_files, export_log, failed_list_files, retry_log, repair_log>>

vars == <<sheetVars, exportVars, retryVars, pageVars, contactVars, fileVars>>

----------------------------------------------------------------------------
(* Bounds of the model *)

MaxRows == 3
MaxFiles == 4
MaxFailed == 2
MaxPasses == 2
MaxLastRow == 120
MaxChars == 3
MaxColumn == 1
MaxDocRows == 2
MaxBatchFiles == 8
MaxStem == 3

----------------------------------------------------------------------------
(* Cell values *)

None == [t |-> "none", s |-> <<>>, n |-> 0]
Str(chars) == [t |-> "str", s |-> chars, n |-> 0]
Num(k) == [t |-> "int", s |-> <<>>, n |-> k]

\* Python truthiness of a cell value: `not volunteer_name`
Truthy(v) ==
    CASE v.t = "none" -> FALSE
      [] v.t = "str" -> v.s # <<>>
      [] OTHER -> v.n # 0

DigitChar == <<"0", "1", "2", "3", "4", "5", "6", "7", "8", "9">>

\* str(int(x)) for a non-negative number
RECURSIVE IntToStr(_)
IntToStr(k) ==
    IF k < 10 THEN <<DigitChar[k + 1]>>
    ELSE IntToStr(k \div 10) \o <<DigitChar[(k % 10) + 1]>>

\* code point of a character, for the order sorted() uses on names
Ord(c) ==
    CASE c = "/" -> 47
      [] c = "7" -> 55
      [] c = "8" -> 56
      [] c = "A" -> 65
      [] c = "B" -> 66
      [] c = "C" -> 67
      [] c = "D" -> 68
      [] c = "H" -> 72
      [] c = "P" -> 80
      [] c = "_" -> 95
      [] c = "a" -> 97
      [] c = "e" -> 101
      [] c = "h" -> 104
      [] c = "n" -> 110
      [] c = "o" -> 111
      [] c = "s" -> 115
      [] OTHER -> 0

\* Python's str < str
RECURSIVE StrLess(_, _)
StrLess(a, b) ==
    IF b = <<>> THEN FALSE
    ELSE IF a = <<>> THEN TRUE
    ELSE IF Ord(Head(a)) # Ord(Head(b)) THEN Ord(Head(a)) < Ord(Head(b))
    ELSE StrLess(Tail(a), Tail(b))

----------------------------------------------------------------------------
(* The source sheet *)

NameValues == {None, Str(<<"A", "/">>), Str(<<"A", "_">>)}
PhoneValues == {None, Num(7), Str(<<"7">>), Num(8)}

\* a row as sheet.iter_rows(values_only=True) yields it: a tuple of the
\* sheet's width; index 3 (JSP Id) carries the row number
MkRow(i, name, phone, width) ==
    [j \in 1..width |->
        CASE j = 4 -> Num(i)
          [] j = 8 -> name
          [] j = 9 -> phone
          [] OTHER -> None]

HeaderRow(width) == [j \in 1..width |-> Str(<<"H">>)]

\* zero-based indexing of a row tuple
Cell(row, idx) == row[idx + 1]

\* the rows of a sheet: the header row, then one row per name and phone
Sheet(width, names, phones) ==
    <<HeaderRow(width)>> \o [i \in 1..Len(names) |-> MkRow(i, names[i], phones[i], width)]

----------------------------------------------------------------------------
(* process_sheet, step 1: grouping *)

\* KeyPhone that drops every numeric phone
KeyPhone_NumbersDropped(row) ==
    LET v == IF Len(row) > 8 /\ Cell(row, 8).t # "none" THEN Cell(row, 8) ELSE Str(<<>>)
    IN  v.s

\* lines 197-199: the phone part of the key
KeyPhone(row) ==
    LET v == IF Len(row) > 8 /\ Cell(row, 8).t # "none" THEN Cell(row, 8) ELSE Str(<<>>)
    IN  IF v.t = "int" THEN IntToStr(v.n) ELSE v.s

\* RowKey without the phone
RowKey_NameOnly(row) == [name |-> Cell(row, 7), phone |-> <<>>]

RowKey(row) == [name |-> Cell(row, 7), phone |-> KeyPhone(row)]

\* position of key in the ordered dict, 0 when absent
KeyIndex(records, key) ==
    LET hits == {i \in 1..Len(records) : records[i].key = key}
    IN  IF hits = {} THEN 0 ELSE CHOOSE i \in hits : TRUE

\* AddRow that puts the row in front of the rows of its key
AddRow_InFront(records, row) ==
    LET key == RowKey(row)
        at == KeyIndex(records, key)
    IN  IF at = 0 THEN Append(records, [key |-> key, rows |-> <<row>>])
        ELSE [records EXCEPT ![at].rows = <<row>> \o @]

\* lines 205-207
AddRow(records, row) ==
    LET key == RowKey(row)
        at == KeyIndex(records, key)
    IN  IF at = 0 THEN Append(records, [key |-> key, rows |-> <<row>>])
        ELSE [records EXCEPT ![at].rows = Append(@, row)]

\* SkipRow without the test of the name
SkipRow_NoNameTest(row) == Len(row) < 9

\* lines 189-194: rows that are skipped
SkipRow(row) == Len(row) < 9 \/ ~Truthy(Cell(row, 7))

\* lines 188-207: for i in range(1, len(data))
RECURSIVE GroupFrom(_, _, _)
GroupFrom(rows, i, records) ==
    IF i > Len(rows) THEN records
    ELSE GroupFrom(rows, i + 1,
                   IF SkipRow(rows[i]) THEN records ELSE AddRow(records, rows[i]))

GroupRecords(rows) == GroupFrom(rows, 2, <<>>)

\* lines 213-217: volunteer_name_counts[name]
NameCount(records, name) ==
    Cardinality({i \in 1..Len(records) : records[i].key.name = name})

\* line 235: sorted(keys, key=lambda k: k[0]), a stable sort by name
RECURSIVE InsertKey(_, _)
InsertKey(sorted, key) ==
    IF sorted = <<>> THEN <<key>>
    ELSE LET last == sorted[Len(sorted)]
         IN  IF StrLess(key.name.s, last.name.s)
             THEN Append(InsertKey(SubSeq(sorted, 1, Len(sorted) - 1), key), last)
             ELSE Append(sorted, key)

RECURSIVE SortKeys(_, _)
SortKeys(records, i) ==
    IF i = 0 THEN <<>>
    ELSE InsertKey(SortKeys(records, i - 1), records[i].key)

SortedKeys(records) == SortKeys(records, Len(records))

----------------------------------------------------------------------------
(* process_sheet, step 2: rendering and saving one document per key *)

UnsafeChars == {"/", "\\", ":", "*", "?", "\"", "<", ">", "|"}

\* line 329: the chain of .replace(c, '_')
Sanitize(chars) ==
    [i \in 1..Len(chars) |-> IF chars[i] \in UnsafeChars THEN "_" ELSE chars[i]]

\* SafeFilename with the suffix only from the third key of a name on
SafeFilename_CountOffByOne(records, key) ==
    IF NameCount(records, key.name) > 2
    THEN Sanitize(key.name.s) \o <<"_">> \o key.phone
    ELSE Sanitize(key.name.s)

\* lines 331-336
SafeFilename(records, key) ==
    IF NameCount(records, key.name) > 1
    THEN Sanitize(key.name.s) \o <<"_">> \o key.phone
    ELSE Sanitize(key.name.s)

\* line 339: the file name inside the tab folder
ExcelName(records, key) == SafeFilename(records, key) \o <<".xlsx">>

\* lines 250-254: the volunteer number of the header
VolunteerNumber(rows) ==
    LET v == Cell(rows[1], 8)
    IN  IF v.t = "int" THEN IntToStr(v.n) ELSE v.s

\* lines 286-303: one data row of the document
DocRow(j, vol_data) ==
    [sno |-> j,
     cells |-> [k \in 1..4 |->
                  LET v == IF k + 1 < Len(vol_data) THEN Cell(vol_data, k + 1) ELSE Str(<<>>)
                  IN  IF k + 1 = 5 /\ v.t = "int" THEN Str(IntToStr(v.n)) ELSE v],
     status |-> Str(<<>>)]

RecordsOf(records, key) == records[KeyIndex(records, key)].rows

\* lines 242-303: the workbook built for one key
Document(records, key) ==
    LET volunteer_data == RecordsOf(records, key)
    IN  [name |-> key.name.s,
         number |-> VolunteerNumber(volunteer_data),
         rows |-> [j \in 1..Len(volunteer_data) |-> DocRow(j, volunteer_data[j])]]

----------------------------------------------------------------------------
(* Actions of process_sheet *)

\* the export pass is not part of process_sheet
ExportIdle ==
    /\ excel_files = <<>>
    /\ max_workers_arg = 1
    /\ max_workers = 1
    /\ batches = <<>>
    /\ workers = <<>>
    /\ counter = 0
    /\ success_count = 0
    /\ error_count = 0
    /\ failed_files = <<>>
    /\ pdfs = {}
    /\ ledger = <<>>

\* the retry pass is not part of the operation
RetryIdle ==
    /\ source_docs = {}
    /\ retry_failed_files = <<>>
    /\ file_pos = 1
    /\ attempt = 0
    /\ still_failed_files = <<>>
    /\ retry_success_count = 0
    /\ total_files = 0
    /\ total_success = 0
    /\ total_still_failed = 0
    /\ succeeded = {}
    /\ pass = 0
    /\ update_raised = FALSE
    /\ read_raised = FALSE
    /\ attempt_log = <<>>

\* the locals of a conversion before its first statement: excel_app as
\* given by the caller, no session of its own, wb unbound, no backend call
\* made, no call failed, nothing returned
NoConversion ==
    [app |-> "none", locally_created |-> FALSE, session |-> "none",
     wb |-> "unbound", calls |-> <<>>, failed_at |-> "none",
     success |-> FALSE, result |-> "none"]

\* no page setup and no contact repair is part of the operation
PagesIdle ==
    /\ converter = "none"
    /\ last_row = 0
    /\ fit_to_pages_tall = 0
    /\ conv = NoConversion

ContactIdle ==
    /\ mobile = <<>>
    /\ mobile_before = <<>>
    /\ modified = FALSE
    /\ applied = 0
    /\ doc_file = <<>>
    /\ handed_file = <<>>

\* no file name has been taken apart, no folder scanned, no file repaired
FilesIdle ==
    /\ input_file = <<>>
    /\ input_file_path = <<>>
    /\ district_name = <<>>
    /\ excels_folder = <<>>
    /\ folders = {}
    /\ ledger_files = {}
    /\ export_log = {}
    /\ failed_list_files = {}
    /\ retry_log = {}
    /\ repair_log = {}

\* process_sheet is not part of the export pass
SheetIdle ==
    /\ ncols = 9
    /\ data = <<>>
    /\ volunteer_records = <<>>
    /\ sorted_keys = <<>>
    /\ next_key = 1
    /\ tab_folder = {}
    /\ processed_count = 0
    /\ save_errors = {}
    /\ first_run = <<>>

Init ==
    /\ ExportIdle
    /\ RetryIdle
    /\ PagesIdle
    /\ ContactIdle
    /\ FilesIdle
    /\ pc = "start"
    /\ ncols \in {8, 9}
    /\ \E len \in 0..MaxRows :
         \E names \in [1..len -> NameValues], phones \in [1..len -> PhoneValues] :
            data = Sheet(ncols, names, phones)
    /\ volunteer_records = <<>>
    /\ sorted_keys = <<>>
    /\ next_key = 1
    /\ tab_folder = {}
    /\ processed_count = 0
    /\ save_errors = {}
    /\ first_run = <<>>

\* lines 179-235
GroupSheet ==
    /\ pc = "start"
    /\ volunteer_records' = GroupRecords(data)
    /\ sorted_keys' = SortedKeys(GroupRecords(data))
    /\ pc' = "render"
    /\ UNCHANGED <<ncols, data, next_key, tab_folder, processed_count, save_errors, first_run>>
    /\ UNCHANGED <<exportVars, retryVars, pageVars, contactVars, fileVars>>

\* a count that goes up whether the save raised or not
CountAfterSave_Always(count, saved) == count + 1

\* lines 340-343, 352: processed_count after the save of one document
CountAfterSave(count, saved) == IF saved THEN count + 1 ELSE count

\* a save that adds the rows to those of a file that is already there
SaveFile_Appending(folder, file, doc) ==
    {f \in folder : f.file # file} \cup
    {[file |-> file,
      doc |-> IF \E f \in folder : f.file = file
              THEN LET old == (CHOOSE f \in folder : f.file = file).doc
                   IN  [doc EXCEPT !.rows = old.rows \o @]
              ELSE doc] }

\* new_wb.save(excel_path) succeeding: the file is created or overwritten
SaveFile(folder, file, doc) ==
    {f \in folder : f.file # file} \cup {[file |-> file, doc |-> doc]}

\* lines 237-353: one iteration of `for key in sorted_keys`; the save
\* either succeeds or raises, and the exception is caught at line 352
RenderVolunteer ==
    /\ pc = "render"
    /\ next_key <= Len(sorted_keys)
    /\ LET key == sorted_keys[next_key]
       IN  \E saved \in BOOLEAN :
             /\ tab_folder' = IF saved
                              THEN SaveFile(tab_folder,
                                            ExcelName(volunteer_records, key),
                                            Document(volunteer_records, key))
                              ELSE tab_folder
             /\ save_errors' = IF saved THEN save_errors ELSE save_errors \cup {key}
             /\ processed_count' = CountAfterSave(processed_count, saved)
    /\ next_key' = next_key + 1
    /\ UNCHANGED <<pc, ncols, data, volunteer_records, sorted_keys, first_run>>
    /\ UNCHANGED <<exportVars, retryVars, pageVars, contactVars, fileVars>>

\* lines 355-356: return processed_count
ReturnProcessed ==
    /\ pc = "render"
    /\ next_key > Len(sorted_keys)
    /\ pc' = "done"
    /\ UNCHANGED <<ncols, data, volunteer_records, sorted_keys, next_key,
                   tab_folder, processed_count, save_errors, first_run>>
    /\ UNCHANGED <<exportVars, retryVars, pageVars, contactVars, fileVars>>

Next == GroupSheet \/ RenderVolunteer \/ ReturnProcessed

Spec == Init /\ [][Next]_vars

----------------------------------------------------------------------------
(* Properties of process_sheet *)

Grouped == pc # "start"

DataRows == {i \in 2..Len(data) : TRUE}

NonEmptyName(row) == Len(row) >= 8 /\ Cell(row, 7).t = "str" /\ Cell(row, 7).s # <<>>

\* number of times a row occurs in the groups of volunteer_records
Occurrences(row) ==
    LET slots == {<<g, j>> \in (1..Len(volunteer_records)) \X (1..MaxRows + 1) :
                    /\ j <= Len(volunteer_records[g].rows)
                    /\ volunteer_records[g].rows[j] = row}
    IN  Cardinality(slots)

Keys == {volunteer_records[g].key : g \in 1..Len(volunteer_records)}

EndsWith(chars, suffix) ==
    /\ Len(chars) >= Len(suffix)
    /\ SubSeq(chars, Len(chars) - Len(suffix) + 1, Len(chars)) = suffix

\* C1 as stated: after grouping, every data row with a non-empty name at
\* index 7 is in exactly one group and every row with an empty name is in none.
C1_EveryNamedRowGrouped ==
    Grouped =>
        \A i \in DataRows :
            IF NonEmptyName(data[i]) THEN Occurrences(data[i]) = 1
            ELSE Occurrences(data[i]) = 0

\* C1 amended: after grouping, every data row that has at least 9 cells and
\* a non-empty name at index 7 is in exactly one group, once; every other row
\* (fewer than 9 cells, or an empty name) and the header row are in no group.
C1_NamedRowOfFullWidthGrouped ==
    Grouped =>
        /\ \A i \in DataRows :
              IF Len(data[i]) >= 9 /\ NonEmptyName(data[i])
              THEN Occurrences(data[i]) = 1
              ELSE Occurrences(data[i]) = 0
        /\ Occurrences(data[1]) = 0

\* a sheet of 9 columns with a named row, a second row of the same key and a
\* row without a name has been grouped
C1_Witness ==
    /\ pc = "done"
    /\ ncols = 9
    /\ \E i, j, k \in DataRows :
          /\ i # j
          /\ NonEmptyName(data[i])
          /\ RowKey(data[i]) = RowKey(data[j])
          /\ ~NonEmptyName(data[k])
          /\ Occurrences(data[i]) = 1
          /\ Occurrences(data[k]) = 0

\* C2 as stated: when process_sheet returns, any two distinct keys have
\* different file names, every group whose save did not raise has its own
\* document in the tab folder, and the returned count is the number of
\* documents present.
C2_UniqueOutputPaths ==
    pc = "done" =>
        /\ \A k1, k2 \in Keys :
              k1 # k2 => ExcelName(volunteer_records, k1) # ExcelName(volunteer_records, k2)
        /\ \A k \in Keys \ save_errors :
              [file |-> ExcelName(volunteer_records, k),
               doc |-> Document(volunteer_records, k)] \in tab_folder
        /\ processed_count = Cardinality(tab_folder)

\* C3: whenever two distinct keys of the sheet share a name, the count of
\* that name is above 1, both file names end with "_" and the key's phone,
\* and the two file names differ.
C3_SharedNameGetsPhoneSuffix ==
    Grouped =>
        \A k1, k2 \in Keys :
            (k1 # k2 /\ k1.name = k2.name) =>
                /\ NameCount(volunteer_records, k1.name) > 1
                /\ EndsWith(SafeFilename(volunteer_records, k1), <<"_">> \o k1.phone)
                /\ EndsWith(SafeFilename(volunteer_records, k2), <<"_">> \o k2.phone)
                /\ ExcelName(volunteer_records, k1) # ExcelName(volunteer_records, k2)

\* two keys of one name were rendered, one of them with a missing phone
C3_Witness ==
    /\ pc = "done"
    /\ \E k1, k2 \in Keys :
          /\ k1 # k2
          /\ k1.name = k2.name
          /\ k1.phone = <<>>
          /\ processed_count >= 2

\* the keys the loop of process_sheet has rendered so far
Rendered == {sorted_keys[i] : i \in 1..Len(sorted_keys)} \cap
            {sorted_keys[i] : i \in 1..(next_key - 1)}

\* C20: at every point of the loop of process_sheet the keys whose save
\* raised are among the rendered ones, every other rendered key has a file
\* of its name in the tab folder, and processed_count is the number of
\* rendered keys whose save did not raise; when process_sheet returns every
\* key of the sheet has been rendered.
C20_SaveFailureSkipsOneEntity ==
    pc \in {"render", "done"} =>
        /\ save_errors \subseteq Rendered
        /\ \A k \in Rendered \ save_errors :
              \E f \in tab_folder : f.file = ExcelName(volunteer_records, k)
        /\ processed_count = Cardinality(Rendered \ save_errors)
        /\ pc = "done" => Rendered = Keys

\* the save of the first of three entities raised and the two after it
\* were saved
C20_Witness ==
    /\ pc = "done"
    /\ Len(sorted_keys) = 3
    /\ save_errors = {sorted_keys[1]}
    /\ processed_count = 2
    /\ Cardinality(tab_folder) = 2

\* the rows of the sheet below the header row that process_sheet groups
\* under key, in the order of the sheet
SourceRowsOf(key) ==
    SelectSeq(SubSeq(data, 2, Len(data)),
              LAMBDA row : ~SkipRow(row) /\ RowKey(row) = key)

\* C22: the rows of every group are the source rows of its key in the order
\* of the sheet, and every document in the tab folder is the document of a
\* group: one data row per row of the group and in its order, numbered
\* 1..n, carrying the cells at index 2..5 of the source row (a numeric
\* Mobile as its integer string), with an empty status cell.
C22_GroupAndDocumentInSourceOrder ==
    Grouped =>
        /\ \A g \in 1..Len(volunteer_records) :
              volunteer_records[g].rows = SourceRowsOf(volunteer_records[g].key)
        /\ \A f \in tab_folder :
              \E k \in Keys :
                 LET src == SourceRowsOf(k)
                 IN  /\ f.file = ExcelName(volunteer_records, k)
                     /\ Len(f.doc.rows) = Len(src)
                     /\ \A j \in 1..Len(src) :
                           /\ f.doc.rows[j].sno = j
                           /\ f.doc.rows[j].status = Str(<<>>)
                           /\ \A c \in 1..3 : f.doc.rows[j].cells[c] = Cell(src[j], c + 1)
                           /\ f.doc.rows[j].cells[4] =
                                 IF Cell(src[j], 5).t = "int"
                                 THEN Str(IntToStr(Cell(src[j], 5).n))
                                 ELSE Cell(src[j], 5)

\* the first and the third data row of the sheet share a key that the
\* second one does not have, and the document of the two has been saved
C22_Witness ==
    /\ pc = "done"
    /\ Len(data) = 4
    /\ ~SkipRow(data[2]) /\ ~SkipRow(data[3])
    /\ RowKey(data[2]) = RowKey(data[4])
    /\ RowKey(data[2]) # RowKey(data[3])
    /\ \E f \in tab_folder :
          /\ Len(f.doc.rows) = 2
          /\ f.doc.rows[1].cells[2] = Num(1)
          /\ f.doc.rows[2].cells[2] = Num(3)

\* two data rows of the sheet are in one group
SameGroup(i, j) ==
    \E g \in 1..Len(volunteer_records) :
        \E a, b \in 1..Len(volunteer_records[g].rows) :
            /\ volunteer_records[g].rows[a] = data[i]
            /\ volunteer_records[g].rows[b] = data[j]

\* the text a phone cell stands for: nothing for a missing value, the
\* decimal digits of a number, the text itself
PhoneText(v) ==
    CASE v.t = "none" -> <<>>
      [] v.t = "int" -> IntToStr(v.n)
      [] OTHER -> v.s

\* C23 as stated: two grouped rows of the same name whose phone cells hold
\* different values are never in one group.
C23_DifferentPhoneCellsNeverMerged ==
    Grouped =>
        \A i, j \in DataRows :
            (/\ ~SkipRow(data[i]) /\ ~SkipRow(data[j])
             /\ Cell(data[i], 7) = Cell(data[j], 7)
             /\ Cell(data[i], 8) # Cell(data[j], 8))
                => ~SameGroup(i, j)

\* C23 amended: two grouped rows of the same name are in one group exactly
\* when their phone cells stand for the same text (a missing value for the
\* empty text, a number for its integer digits, a text for itself), and
\* that text, unchanged, is the phone of the key and the suffix of the
\* file name of a shared name.
C23_MergedIffSamePhoneText ==
    Grouped =>
        /\ \A i, j \in DataRows :
              (/\ ~SkipRow(data[i]) /\ ~SkipRow(data[j])
               /\ Cell(data[i], 7) = Cell(data[j], 7))
                  => (SameGroup(i, j) <=>
                         PhoneText(Cell(data[i], 8)) = PhoneText(Cell(data[j], 8)))
        /\ \A g \in 1..Len(volunteer_records) :
              LET k == volunteer_records[g].key
              IN  /\ \A a \in 1..Len(volunteer_records[g].rows) :
                        k.phone = PhoneText(Cell(volunteer_records[g].rows[a], 8))
                  /\ NameCount(volunteer_records, k.name) > 1 =>
                        SafeFilename(volunteer_records, k) =
                            Sanitize(k.name.s) \o <<"_">> \o k.phone

\* of three rows of one name the number 7 and the text "7" are in one
\* group, the missing phone in another, and both documents were saved
C23_Witness ==
    /\ pc = "done"
    /\ ncols = 9
    /\ Len(data) = 4
    /\ Cell(data[2], 7) = Cell(data[3], 7) /\ Cell(data[3], 7) = Cell(data[4], 7)
    /\ Cell(data[2], 8) = Num(7)
    /\ Cell(data[3], 8) = None
    /\ Cell(data[4], 8) = Str(<<"7">>)
    /\ SameGroup(2, 4)
    /\ ~SameGroup(2, 3)
    /\ Len(volunteer_records) = 2
    /\ Cardinality(tab_folder) = 2

----------------------------------------------------------------------------
(* process_sheet run a second time on the same sheet *)

\* a sheet of 9 columns whose rows all have a name is given to process_sheet
InitRerun ==
    /\ ExportIdle
    /\ RetryIdle
    /\ PagesIdle
    /\ ContactIdle
    /\ FilesIdle
    /\ pc = "start"
    /\ ncols = 9
    /\ \E len \in 0..MaxRows :
         \E names \in [1..len -> NameValues \ {None}],
            phones \in [1..len -> {None, Num(7), Num(8)}] :
            data = Sheet(ncols, names, phones)
    /\ volunteer_records = <<>>
    /\ sorted_keys = <<>>
    /\ next_key = 1
    /\ tab_folder = {}
    /\ processed_count = 0
    /\ save_errors = {}
    /\ first_run = <<>>

\* process_sheet is called again with the same sheet: its locals start
\* afresh (lines 179-185, 232), the tab folder exists and keeps its files
\* (lines 226-229)
Rerun ==
    /\ pc = "done"
    /\ first_run = <<>>
    /\ first_run' = <<[folder |-> tab_folder, errors |-> save_errors]>>
    /\ pc' = "start"
    /\ volunteer_records' = <<>>
    /\ sorted_keys' = <<>>
    /\ next_key' = 1
    /\ processed_count' = 0
    /\ save_errors' = {}
    /\ UNCHANGED <<ncols, data, tab_folder>>
    /\ UNCHANGED <<exportVars, retryVars, pageVars, contactVars, fileVars>>

NextRerun == GroupSheet \/ RenderVolunteer \/ ReturnProcessed \/ Rerun

SpecRerun == InitRerun /\ [][NextRerun]_vars

FileNames(folder) == {f.file : f \in folder}

\* C24: in a second run of process_sheet on the unchanged sheet, after a
\* first run none of whose saves raised, no file name appears in the tab
\* folder that the first run did not write, and when the second run
\* returns, none of its saves having raised, the tab folder holds the same
\* file names as after the first run, each with the same header and the
\* same data rows.
C24_RerunSameFilesSameDocuments ==
    (first_run # <<>> /\ first_run[1].errors = {}) =>
        /\ FileNames(tab_folder) = FileNames(first_run[1].folder)
        /\ (pc = "done" /\ save_errors = {}) => tab_folder = first_run[1].folder

\* the second run has returned after saving two documents, one of them
\* of two rows, that the first run had saved too
C24_Witness ==
    /\ pc = "done"
    /\ first_run # <<>>
    /\ first_run[1].errors = {}
    /\ save_errors = {}
    /\ processed_count = 2
    /\ Cardinality(tab_folder) = 2
    /\ \E f \in tab_folder : Len(f.doc.rows) = 2

----------------------------------------------------------------------------
(* process_sheet on the sheets of the end-to-end scenario *)

Asha == Str(<<"A", "s", "h", "a">>)
OtherNames == {Str(<<"B">>), Str(<<"C">>), Str(<<"D">>)}

\* a sheet of 9 columns with 4 or 5 data rows: two rows of the name Asha
\* with different phone cells (missing, a number, a text, a text with a
\* slash), every other row with another name
InitScenario ==
    /\ ExportIdle
    /\ RetryIdle
    /\ PagesIdle
    /\ ContactIdle
    /\ FilesIdle
    /\ pc = "start"
    /\ ncols = 9
    /\ \E len \in {4, 5} :
         \E i, j \in 1..len, phone1 \in {None, Num(7)}, phone2 \in {Num(8), Str(<<"7">>), Str(<<"7", "/">>)},
            others \in [1..len -> OtherNames] :
            /\ i < j
            /\ data = Sheet(ncols,
                            [r \in 1..len |-> IF r \in {i, j} THEN Asha ELSE others[r]],
                            [r \in 1..len |-> IF r = i THEN phone1
                                              ELSE IF r = j THEN phone2 ELSE None])
    /\ volunteer_records = <<>>
    /\ sorted_keys = <<>>
    /\ next_key = 1
    /\ tab_folder = {}
    /\ processed_count = 0
    /\ save_errors = {}
    /\ first_run = <<>>

SpecScenario == InitScenario /\ [][Next]_vars

\* the data rows of the name Asha, and the others
AshaRows == {i \in DataRows : Cell(data[i], 7) = Asha}
OtherRows == DataRows \ AshaRows

\* the file names of the scenario: Asha_<phone>.xlsx for the rows of Asha,
\* <Name>.xlsx for every other row
ScenarioNames ==
    /\ \A i \in AshaRows :
          ExcelName(volunteer_records, RowKey(data[i])) =
              Asha.s \o <<"_">> \o PhoneText(Cell(data[i], 8)) \o <<".xlsx">>
    /\ \A i \in OtherRows :
          ExcelName(volunteer_records, RowKey(data[i])) =
              Cell(data[i], 7).s \o <<".xlsx">>

\* C25 as stated: a sheet with 5 data rows, 2 of the name Asha with
\* different phones and the others with other names, gives 4 groups, with
\* the file names of the scenario.
C25_FiveDataRowsFourGroups ==
    (Grouped /\ Cardinality(DataRows) = 5) =>
        /\ Len(volunteer_records) = 4
        /\ ScenarioNames

\* C25 amended: a sheet whose data rows are 2 rows of the name Asha whose
\* phones differ as text and rows of other names, no two of them alike,
\* gives one group per data row (4 groups for 4 data rows, the sheet of 5
\* rows with its header row; 5 groups for 5 data rows), with the file
\* names of the scenario.
C25_OneGroupPerDistinctEntity ==
    (/\ Grouped
     /\ \A i, j \in AshaRows :
           i # j => PhoneText(Cell(data[i], 8)) # PhoneText(Cell(data[j], 8))
     /\ \A i, j \in OtherRows : i # j => Cell(data[i], 7) # Cell(data[j], 7))
        => /\ Len(volunteer_records) = Cardinality(DataRows)
           /\ Cardinality(AshaRows) = 2
           /\ ScenarioNames

\* the sheet of 5 rows (header row and 4 data rows) has been rendered: 4
\* groups, the documents of Asha saved as Asha_7.xlsx and Asha_8.xlsx
C25_Witness ==
    /\ pc = "done"
    /\ Cardinality(DataRows) = 4
    /\ Len(volunteer_records) = 4
    /\ Cardinality(tab_folder) = 4
    /\ \E f, g \in tab_folder :
          /\ f.file = <<"A", "s", "h", "a", "_", "7", ".xlsx">>
          /\ g.file = <<"A", "s", "h", "a", "_", "8", ".xlsx">>
          /\ f.doc.name = Asha.s /\ g.doc.name = Asha.s

\* C28 as stated: no file name that process_sheet derives contains one of
\* the characters / \ : * ? " < > |, with or without the phone appended.
C28_FilenamesHaveNoUnsafeChars ==
    Grouped =>
        \A k \in Keys :
            \A i \in 1..Len(SafeFilename(volunteer_records, k)) :
                SafeFilename(volunteer_records, k)[i] \notin UnsafeChars

----------------------------------------------------------------------------
(* The export pass over one tag: convert_excel_to_pdf, process_batch,      *)
(* convert_excel_file_to_pdf and create_failed_list_excel                  *)

\* the names glob finds in the input folder, in its order
FilePool == <<"a.xlsx", "b.xlsx", "c.xlsx", "d.xlsx", "e.xlsx", "f.xlsx",
              "g.xlsx", "h.xlsx", "i.xlsx">>

WorkersCap == 4
SmallBatch == 3
MinBatchSize == 3

Max(a, b) == IF a >= b THEN a ELSE b
Min(a, b) == IF a <= b THEN a ELSE b
CeilDiv(a, b) == (a + b - 1) \div b
Range(seq) == {seq[i] : i \in 1..Len(seq)}

\* os.cpu_count() or 2; 0 stands for None
CpuCountOr2(cpu_count) == IF cpu_count = 0 THEN 2 ELSE cpu_count

\* convert_to_pdf.py lines 177-179: max_workers after the default is applied
MaxWorkers(arg, cpu_count) ==
    IF arg = 0 THEN Min(WorkersCap, CpuCountOr2(cpu_count)) ELSE arg

\* convert_to_pdf.py line 223
SingleProcess(files, mw) == Len(files) <= SmallBatch \/ mw = 1

\* batches of the least size, whatever the number of workers
BatchSize_Least(n, mw) == MinBatchSize

\* convert_to_pdf.py line 254
BatchSize(n, mw) == Max(MinBatchSize, CeilDiv(n, mw))

\* convert_to_pdf.py line 255
Batches(files, mw) ==
    LET size == BatchSize(Len(files), mw)
    IN  [b \in 1..CeilDiv(Len(files), size) |->
            SubSeq(files, (b - 1) * size + 1, Min(b * size, Len(files)))]

\* the ledger file is absent
NoLedger == <<>>

\* create_failed_list_excel lines 356-381: the rows of the sheet it
\* writes; "" is a cell without a value
LedgerFile(failed, tab_name) ==
    << <<"Failed PDF Conversions - " \o tab_name, "", "">>,
       <<"", "", "">>,
       <<"File Name", "Error Message", "Date/Time">> >>
    \o [i \in 1..Len(failed) |-> <<failed[i][1], failed[i][2], "time">>]

TabName == "tab"

\* process_batch lines 296-298, and the session it has not created yet;
\* app names the session object, open holds the documents that were opened
\* in it and on which Close has not been called
NewWorker ==
    [pc |-> "init", pos |-> 1, session |-> "none", app |-> 0, open |-> {},
     success |-> 0, error |-> 0, failed |-> <<>>]

\* one session object for all batches
NewSession_Shared(w) == 1

\* lines 228, 309: the object that the Dispatch call of batch w returns
NewSession(w) == w

InitExport ==
    /\ SheetIdle
    /\ RetryIdle
    /\ PagesIdle
    /\ ContactIdle
    /\ FilesIdle
    /\ pc = "start"
    /\ excel_files \in {SubSeq(FilePool, 1, n) : n \in 0..MaxFiles}
    /\ \E arg \in {0, 1, 2}, cpu_count \in {0, 8} :
         /\ max_workers_arg = arg
         /\ max_workers = MaxWorkers(arg, cpu_count)
    /\ batches = <<>>
    /\ workers = <<>>
    /\ counter = 0
    /\ success_count = 0
    /\ error_count = 0
    /\ failed_files = <<>>
    /\ pdfs \in {{}, {FilePool[1]}}
    /\ ledger \in {NoLedger, LedgerFile(<< <<FilePool[1], "err">> >>, TabName)}

\* convert_excel_to_pdf lines 192-265: no file, one session for all files,
\* or one process_batch per batch
StartConversion ==
    /\ pc = "start"
    /\ IF excel_files = <<>>
       THEN /\ pc' = "converted"
            /\ UNCHANGED <<batches, workers>>
       ELSE /\ pc' = "converting"
            /\ batches' = IF SingleProcess(excel_files, max_workers)
                          THEN <<excel_files>>
                          ELSE Batches(excel_files, max_workers)
            /\ workers' = [b \in 1..Len(batches') |-> NewWorker]
    /\ UNCHANGED <<excel_files, max_workers_arg, max_workers, counter,
                   success_count, error_count, failed_files, pdfs, ledger>>
    /\ UNCHANGED <<ncols, data, volunteer_records, sorted_keys, next_key,
                   tab_folder, processed_count, save_errors, first_run>>
    /\ UNCHANGED <<retryVars, pageVars, contactVars, fileVars>>

CurrentFile(w) == batches[w][workers[w].pos]

\* the loop of process_batch (lines 314-320) moves to the next file
NextFile(wk, batch) ==
    IF wk.pos + 1 > Len(batch)
    THEN [wk EXCEPT !.pos = @ + 1, !.pc = "quit"]
    ELSE [wk EXCEPT !.pos = @ + 1, !.pc = "open"]

\* lines 236-238, 318-320: the result (False, filename, error_msg)
FileFailed(wk, batch) ==
    NextFile([wk EXCEPT !.error = @ + 1,
                        !.failed = Append(@, <<batch[wk.pos], "err">>)], batch)

\* lines 234-235, 316-317: the result (True, filename, None)
FileConverted(wk, batch) ==
    NextFile([wk EXCEPT !.success = @ + 1], batch)

ExportStep(w, wk) ==
    /\ workers' = [workers EXCEPT ![w] = wk]
    /\ UNCHANGED <<pc, excel_files, max_workers_arg, max_workers, batches,
                   success_count, error_count, failed_files, ledger>>
    /\ UNCHANGED <<ncols, data, volunteer_records, sorted_keys, next_key,
                   tab_folder, processed_count, save_errors, first_run>>
    /\ UNCHANGED <<retryVars, pageVars, contactVars, fileVars>>

\* lines 228-230, 309-311: Dispatch("Excel.Application"); when it raises
\* the except clause (240, 322) ends the batch with no file looked at
CreateSession(w) ==
    /\ pc = "converting"
    /\ workers[w].pc = "init"
    /\ \E ok \in BOOLEAN :
         ExportStep(w, IF ok
                       THEN [workers[w] EXCEPT !.session = "alive",
                                               !.app = NewSession(w), !.pc = "open"]
                       ELSE [workers[w] EXCEPT !.pc = "quit"])
    /\ UNCHANGED <<counter, pdfs>>

\* what the backend calls that follow Workbooks.Open can do: every call
\* succeeds, or the page setup or the export raises, or the export succeeds
\* and wb.Close raises at line 131
Outcomes == {"ok", "export_failed", "close_failed"}

\* convert_excel_file_to_pdf lines 68-147 for the open file at wk.pos: in
\* every outcome wb.Close has been called, at line 131 or at line 143
FileResult(wk, batch, outcome) ==
    LET file == batch[wk.pos]
        closed == [wk EXCEPT !.open = @ \ {file}]
    IN  IF outcome = "ok" THEN FileConverted(closed, batch)
        ELSE FileFailed(closed, batch)

\* the PDF exists once ExportAsFixedFormat has returned (lines 121-128)
PdfWritten(outcome) == outcome \in {"ok", "close_failed"}

\* the start of one iteration of the loop over the batch (232-233,
\* 314-315): counter.increment() at line 45 and Workbooks.Open at line 65,
\* which may raise (lines 136-147: no workbook to close, the result False)
OpenDocument(w) ==
    /\ pc = "converting"
    /\ workers[w].pc = "open"
    /\ counter' = counter + 1
    /\ \E opened \in BOOLEAN :
         ExportStep(w, IF opened
                       THEN [workers[w] EXCEPT !.open = @ \cup {CurrentFile(w)},
                                               !.pc = "opened"]
                       ELSE FileFailed(workers[w], batches[w]))
    /\ UNCHANGED pdfs

\* the rest of the iteration (lines 68-147, 234-238, 316-320): page setup,
\* export and close of the open workbook, and the result counted
FinishDocument(w) ==
    /\ pc = "converting"
    /\ workers[w].pc = "opened"
    /\ \E outcome \in Outcomes :
         /\ pdfs' = IF PdfWritten(outcome) THEN pdfs \cup {CurrentFile(w)} ELSE pdfs
         /\ ExportStep(w, FileResult(workers[w], batches[w], outcome))
    /\ UNCHANGED counter

\* lines 242-248, 324-331: excel.Quit() when the session exists; what it
\* raises is swallowed
QuitSession(w) ==
    /\ pc = "converting"
    /\ workers[w].pc = "quit"
    /\ \E ok \in BOOLEAN :
         ExportStep(w, [workers[w] EXCEPT
                          !.session = IF @ = "alive" /\ ok THEN "quit" ELSE @,
                          !.pc = "done"])
    /\ UNCHANGED <<counter, pdfs>>

\* lines 268-272 (and 232-238 for the single session): the results of one
\* finished batch are added to the totals
CollectBatch(w) ==
    /\ pc = "converting"
    /\ workers[w].pc = "done"
    /\ success_count' = success_count + workers[w].success
    /\ error_count' = error_count + workers[w].error
    /\ failed_files' = failed_files \o workers[w].failed
    /\ workers' = [workers EXCEPT ![w].pc = "collected"]
    /\ UNCHANGED <<pc, excel_files, max_workers_arg, max_workers, batches,
                   counter, pdfs, ledger>>
    /\ UNCHANGED <<ncols, data, volunteer_records, sorted_keys, next_key,
                   tab_folder, processed_count, save_errors, first_run>>
    /\ UNCHANGED <<retryVars, pageVars, contactVars, fileVars>>

\* the results are returned as soon as the first batch is collected
AllBatchesCollected_First == workers[1].pc = "collected"

\* lines 260-272: the loop over as_completed and the exit of the `with`
\* block wait for every process_batch (232-248: the one session is done)
AllBatchesCollected == \A w \in DOMAIN workers : workers[w].pc = "collected"

\* line 281: return success_count, error_count, failed_files
ReturnConverted ==
    /\ pc = "converting"
    /\ AllBatchesCollected
    /\ pc' = "converted"
    /\ UNCHANGED exportVars
    /\ UNCHANGED <<ncols, data, volunteer_records, sorted_keys, next_key,
                   tab_folder, processed_count, save_errors, first_run>>
    /\ UNCHANGED <<retryVars, pageVars, contactVars, fileVars>>

\* process_excel_folders lines 513-514 and create_failed_list_excel: the
\* ledger is written when failed_files is not empty; wb.save may raise
\* (lines 390-394)
WriteFailedList ==
    /\ pc = "converted"
    /\ pc' = "exported"
    /\ IF failed_files = <<>>
       THEN UNCHANGED ledger
       ELSE \E saved \in BOOLEAN :
              ledger' = IF saved THEN LedgerFile(failed_files, TabName) ELSE ledger
    /\ UNCHANGED <<excel_files, max_workers_arg, max_workers, batches, workers,
                   counter, success_count, error_count, failed_files, pdfs>>
    /\ UNCHANGED <<ncols, data, volunteer_records, sorted_keys, next_key,
                   tab_folder, processed_count, save_errors, first_run>>
    /\ UNCHANGED <<retryVars, pageVars, contactVars, fileVars>>

NextExport ==
    \/ StartConversion
    \/ \E w \in DOMAIN workers :
         \/ CreateSession(w)
         \/ OpenDocument(w)
         \/ FinishDocument(w)
         \/ QuitSession(w)
         \/ CollectBatch(w)
    \/ ReturnConverted
    \/ WriteFailedList

SpecExport == InitExport /\ [][NextExport]_vars

----------------------------------------------------------------------------
(* Properties of the export pass *)

\* a FailureRecord for file is present in the ledger
Recorded(file) == \E r \in 1..Len(ledger) : ledger[r][1] = file

\* C4 as stated: after the export pass of a tag, a document has a
\* FailureRecord in the ledger exactly when it has no PDF.
C4_RecordIffNoArtifact ==
    pc = "exported" =>
        \A f \in Range(excel_files) : Recorded(f) <=> f \notin pdfs

\* the file names of the returned failed_files list
FailedNames == [i \in 1..Len(failed_files) |-> failed_files[i][1]]

\* C14 as stated: when convert_excel_to_pdf has returned, success_count +
\* error_count is the number of files selected, failed_files has one entry
\* per counted error, no file name twice, and every selected file without a
\* PDF is in failed_files.
C14_EveryFailureCaptured ==
    pc = "converted" =>
        /\ success_count + error_count = Len(excel_files)
        /\ Len(failed_files) = error_count
        /\ \A i, j \in 1..Len(failed_files) : i # j => FailedNames[i] # FailedNames[j]
        /\ \A f \in Range(excel_files) : f \notin pdfs => f \in Range(FailedNames)

\* the sessions that exist: created and not quit
AliveSessions == {w \in DOMAIN workers : workers[w].session = "alive"}

C19_LedgerWrittenAfterWorkers ==
    [][ledger' # ledger =>
          /\ pc = "converted"
          /\ \A w \in DOMAIN workers : workers[w].pc = "collected"]_vars

\* the ledger was written with the failures of two batches
C19_Witness ==
    /\ pc = "exported"
    /\ Len(workers) = 2
    /\ \A w \in DOMAIN workers : workers[w].failed # <<>>
    /\ ledger = LedgerFile(failed_files, TabName)

----------------------------------------------------------------------------
(* The start of an export: the size of the pool, the split into batches    *)
(* and the creation of the sessions (convert_excel_to_pdf lines 176-265,   *)
(* process_batch lines 296-311)                                            *)

InitBatching ==
    /\ SheetIdle
    /\ RetryIdle
    /\ PagesIdle
    /\ ContactIdle
    /\ FilesIdle
    /\ pc = "start"
    /\ excel_files \in {SubSeq(FilePool, 1, n) : n \in 0..MaxBatchFiles}
    /\ \E arg \in {0, 1, 2, 3, 6}, cpu_count \in {0, 1, 2, 8} :
         /\ max_workers_arg = arg
         /\ max_workers = MaxWorkers(arg, cpu_count)
    /\ batches = <<>>
    /\ workers = <<>>
    /\ counter = 0
    /\ success_count = 0
    /\ error_count = 0
    /\ failed_files = <<>>
    /\ pdfs = {}
    /\ ledger = NoLedger

NextBatching ==
    \/ StartConversion
    \/ \E w \in DOMAIN workers : CreateSession(w)

SpecBatching == InitBatching /\ [][NextBatching]_vars

\* the files of the batches, batch after batch
RECURSIVE Flatten(_)
Flatten(seqs) == IF seqs = <<>> THEN <<>> ELSE Head(seqs) \o Flatten(Tail(seqs))

\* C17: once the files are split, the batches in their order hold every
\* file exactly once, there are at most max_workers batches, at most
\* max_workers sessions are alive, and max_workers is at most 4 when the
\* caller gave none.
C17_BoundedSessionPool ==
    /\ max_workers_arg = 0 => max_workers <= 4
    /\ pc = "converting" =>
          /\ Flatten(batches) = excel_files
          /\ \A b \in 1..Len(batches) : batches[b] # <<>>
          /\ Len(batches) <= max_workers
          /\ Len(workers) = Len(batches)
          /\ Cardinality(AliveSessions) <= max_workers

\* 7 files were split for 2 workers into 2 batches of 4 and 3 files and
\* both sessions are alive
C17_Witness ==
    /\ pc = "converting"
    /\ Len(excel_files) = 7
    /\ max_workers = 2
    /\ Len(batches) = 2
    /\ Len(batches[1]) = 4
    /\ Cardinality(AliveSessions) = 2

----------------------------------------------------------------------------
(* The ledger as pandas reads it, and the retry pass over one tag:         *)
(* collect_failed_files, retry_failed_conversions, update_failed_list      *)

\* values of a DataFrame read from the ledger: a str, or the float NaN
PdStr(v) == [t |-> "str", v |-> v]
NaN == [t |-> "float", v |-> "nan"]

\* cell texts that read_excel turns into NaN (its default na_values), as
\* far as they occur in a ledger
NaStrings == {"", "nan"}

\* the name read_excel gives to the column of an empty header cell
Unnamed == <<"Unnamed: 0", "Unnamed: 1", "Unnamed: 2">>

\* pd.read_excel(failed_list_file): the first row of the sheet is the header,
\* every further row (blank rows too) is a row of data
ReadColumns(rows) ==
    [c \in 1..Len(rows[1]) |-> IF rows[1][c] = "" THEN Unnamed[c] ELSE rows[1][c]]

ReadData(rows) ==
    [r \in 1..Len(rows) - 1 |->
        [c \in 1..Len(rows[r + 1]) |->
            IF rows[r + 1][c] \in NaStrings THEN NaN ELSE PdStr(rows[r + 1][c])]]

\* position of the column named name, 0 when there is none
ColumnIndex(columns, name) ==
    LET hits == {c \in 1..Len(columns) : columns[c] = name}
    IN  IF hits = {} THEN 0 ELSE CHOOSE c \in hits : TRUE

\* str(file) of a DataFrame value
PyStr(value) == value.v

RECURSIVE NonEmptyOf(_)
NonEmptyOf(names) ==
    IF names = <<>> THEN <<>>
    ELSE IF Head(names) = "" THEN NonEmptyOf(Tail(names))
    ELSE <<Head(names)>> \o NonEmptyOf(Tail(names))

\* collect_failed_files lines 50-64 on a readable ledger: the column
\* 'File Name' when the header row names one, else the first column
CollectFailedFiles(rows) ==
    LET columns == ReadColumns(rows)
        df == ReadData(rows)
        at == ColumnIndex(columns, "File Name")
        col == IF at # 0 THEN at ELSE 1
    IN  NonEmptyOf([r \in 1..Len(df) |-> PyStr(df[r][col])])

\* collect_failed_files that keeps the names of a ledger whose reading raised
FailedFilesRead_KeptOnError(rows, raised) == CollectFailedFiles(rows)

\* collect_failed_files lines 45-66: failed_files stays [] when a statement
\* of the try block raises (handler at 60-61), and the filter of line 64 and
\* the return of line 66 follow in both cases
FailedFilesRead(rows, raised) ==
    IF raised THEN NonEmptyOf(<<>>) ELSE CollectFailedFiles(rows)

\* DataFrame.to_excel(failed_list_file, index=False): the header row, then
\* one row per row of data, NaN as an empty cell
ToExcel(columns, df) ==
    <<columns>> \o
    [r \in 1..Len(df) |->
        [c \in 1..Len(df[r]) |-> IF df[r][c] = NaN THEN "" ELSE df[r][c].v]]

\* df[df['File Name'].isin(still_failed_files)]
RECURSIVE FilterIsin(_, _, _)
FilterIsin(df, col, names) ==
    IF df = <<>> THEN <<>>
    ELSE IF Head(df)[col].t = "str" /\ Head(df)[col].v \in names
         THEN <<Head(df)>> \o FilterIsin(Tail(df), col, names)
         ELSE FilterIsin(Tail(df), col, names)

LedgerColumns == <<"File Name", "Error Message", "Date/Time">>

\* update_failed_list that leaves the ledger as it finds it
UpdatedLedger_Unfiltered(rows, still_failed) == rows

\* update_failed_list lines 332-348, no exception raised
UpdatedLedger(rows, still_failed) ==
    LET columns == ReadColumns(rows)
        df == ReadData(rows)
        at == ColumnIndex(columns, "File Name")
    IN  IF at # 0
        THEN ToExcel(columns, FilterIsin(df, at, Range(still_failed)))
        ELSE ToExcel(LedgerColumns,
                     [i \in 1..Len(still_failed) |->
                        <<PdStr(still_failed[i]),
                          PdStr("Conversion failed after retry"), PdStr("time")>>])

\* sequences without repetition of at most n of the first n pool names
FailedLists(n) ==
    {q \in UNION {[1..k -> {FilePool[i] : i \in 1..n}] : k \in 0..n} :
        \A i, j \in 1..Len(q) : i # j => q[i] # q[j]}

MaxAttempts == 3

\* the state in which convert_excel_to_pdf has returned failed_files
InitRetry ==
    /\ SheetIdle
    /\ PagesIdle
    /\ ContactIdle
    /\ FilesIdle
    /\ pc = "converted"
    /\ excel_files = <<>>
    /\ max_workers_arg = 1
    /\ max_workers = 1
    /\ batches = <<>>
    /\ workers = <<>>
    /\ counter = 0
    /\ success_count = 0
    /\ \E names \in FailedLists(MaxFailed) :
         /\ failed_files = [i \in 1..Len(names) |-> <<names[i], "err">>]
         /\ error_count = Len(names)
    /\ pdfs = {}
    /\ ledger = NoLedger
    /\ source_docs \in SUBSET {failed_files[i][1] : i \in 1..Len(failed_files)}
    /\ retry_failed_files = <<>>
    /\ file_pos = 1
    /\ attempt = 0
    /\ still_failed_files = <<>>
    /\ retry_success_count = 0
    /\ total_files = 0
    /\ total_success = 0
    /\ total_still_failed = 0
    /\ succeeded = {}
    /\ pass = 0
    /\ update_raised = FALSE
    /\ read_raised = FALSE
    /\ attempt_log = <<>>

RetryFrame ==
    /\ UNCHANGED <<pageVars, contactVars, fileVars>>
    /\ UNCHANGED <<excel_files, max_workers_arg, max_workers, batches, workers,
                   counter, success_count, error_count, failed_files>>
    /\ UNCHANGED <<ncols, data, volunteer_records, sorted_keys, next_key,
                   tab_folder, processed_count, save_errors, first_run>>

\* retry_failed_conversions lines 358-399 for the tag's ledger: the pass
\* ends at once when no ledger is found (363) or no file name is read from
\* it (378); read_excel of collect_failed_files may raise on a ledger found
StartRetryPass ==
    /\ pc \in {"exported", "pass_done"}
    /\ pass < MaxPasses
    /\ pass' = pass + 1
    /\ \E raised \in BOOLEAN :
         /\ read_raised' = (ledger # NoLedger /\ raised)
         /\ retry_failed_files' =
               IF ledger = NoLedger THEN <<>> ELSE FailedFilesRead(ledger, raised)
    /\ pc' = IF retry_failed_files' = <<>> THEN "pass_skipped" ELSE "retrying"
    /\ file_pos' = 1
    /\ attempt' = 0
    /\ still_failed_files' = <<>>
    /\ retry_success_count' = 0
    /\ total_files' = 0
    /\ total_success' = 0
    /\ total_still_failed' = 0
    /\ succeeded' = {}
    /\ update_raised' = FALSE
    /\ attempt_log' = [i \in 1..Len(retry_failed_files') |-> <<>>]
    /\ UNCHANGED <<source_docs, pdfs, ledger>>
    /\ RetryFrame

RetryFile == retry_failed_files[file_pos]

\* lines 402-414: the document of the file name is not in the source folder
SkipMissingFile ==
    /\ pc = "retrying"
    /\ file_pos <= Len(retry_failed_files)
    /\ RetryFile \notin source_docs
    /\ total_files' = total_files + 1
    /\ still_failed_files' = Append(still_failed_files, RetryFile)
    /\ file_pos' = file_pos + 1
    /\ UNCHANGED <<source_docs, retry_failed_files, attempt, retry_success_count,
                   total_success, total_still_failed, succeeded, pass,
                   update_raised, read_raised, attempt_log, pdfs, ledger, pc>>
    /\ RetryFrame

\* what one call of convert_excel_to_pdf_single_file can do: it returns
\* True with the PDF written, it returns False, or the PDF is written and
\* wb.Close raises at line 274, so that line 285 returns False
AttemptOutcomes == {"ok", "failed", "close_failed"}

\* the loop that stops at the first failed attempt
LoopEnds_OnFailure(made, success) == ~success \/ made + 1 = MaxAttempts

\* lines 418-425: `for attempt in range(3)` ends after this attempt, made
\* attempts having gone before it: by break, or with the range used up
LoopEnds(made, success) == success \/ made + 1 = MaxAttempts

\* lines 402-432: one attempt of `for attempt in range(3)` on the current
\* file, and what follows the loop when it was the last one
RetryAttempt ==
    /\ pc = "retrying"
    /\ file_pos <= Len(retry_failed_files)
    /\ RetryFile \in source_docs
    /\ attempt < MaxAttempts
    /\ total_files' = IF attempt = 0 THEN total_files + 1 ELSE total_files
    /\ \E outcome \in AttemptOutcomes :
         LET success == outcome = "ok"
         IN  /\ pdfs' = IF outcome = "failed" THEN pdfs ELSE pdfs \cup {RetryFile}
             /\ attempt_log' = [attempt_log EXCEPT ![file_pos] = Append(@, success)]
             /\ IF ~LoopEnds(attempt, success)
                THEN /\ attempt' = attempt + 1
                     /\ UNCHANGED <<still_failed_files, total_still_failed, file_pos,
                                    retry_success_count, total_success, succeeded>>
                ELSE IF success
                THEN /\ retry_success_count' = retry_success_count + 1
                     /\ total_success' = total_success + 1
                     /\ succeeded' = succeeded \cup {RetryFile}
                     /\ file_pos' = file_pos + 1
                     /\ attempt' = 0
                     /\ UNCHANGED <<still_failed_files, total_still_failed>>
                ELSE /\ still_failed_files' = Append(still_failed_files, RetryFile)
                     /\ total_still_failed' = total_still_failed + 1
                     /\ file_pos' = file_pos + 1
                     /\ attempt' = 0
                     /\ UNCHANGED <<retry_success_count, total_success, succeeded>>
    /\ UNCHANGED <<source_docs, retry_failed_files, pass, update_raised,
                   read_raised, ledger, pc>>
    /\ RetryFrame

\* update_failed_list (called at line 439): os.remove for an empty list,
\* else read, filter or rebuild, and save; an exception of the file
\* operations is caught (328, 351) and leaves the ledger as it is
UpdateFailedList ==
    /\ pc = "retrying"
    /\ file_pos > Len(retry_failed_files)
    /\ \E raised \in BOOLEAN :
         /\ update_raised' = raised
         /\ ledger' = IF raised THEN ledger
                      ELSE IF still_failed_files = <<>> THEN NoLedger
                      ELSE UpdatedLedger(ledger, still_failed_files)
    /\ pc' = "pass_done"
    /\ UNCHANGED <<source_docs, retry_failed_files, file_pos, attempt,
                   still_failed_files, retry_success_count, total_files,
                   total_success, total_still_failed, succeeded, pass,
                   read_raised, attempt_log, pdfs>>
    /\ RetryFrame

\* lines 363-365 and 378-380: nothing to retry; the next run of the script
\* finds the same ledger
EndSkippedPass ==
    /\ pc = "pass_skipped"
    /\ pc' = "pass_done"
    /\ UNCHANGED <<retryVars, pdfs, ledger>>
    /\ RetryFrame

NextRetry ==
    \/ WriteFailedList
    \/ StartRetryPass
    \/ SkipMissingFile
    \/ RetryAttempt
    \/ UpdateFailedList
    \/ EndSkippedPass

SpecRetry == InitRetry /\ [][NextRetry]_vars

----------------------------------------------------------------------------
(* Properties of the ledger and of the retry pass *)

\* the file names the export driver passed to create_failed_list_excel
DriverRecorded == [i \in 1..Len(failed_files) |-> failed_files[i][1]]

\* the file names of the rows below the header row of a rewritten ledger
RecordedNames(rows) == {rows[r][1] : r \in 2..Len(rows)}

\* C5 as stated: the list collect_failed_files reads from the ledger that
\* create_failed_list_excel wrote is the list of file names it was given, in
\* the same order.
C5_LedgerRoundTrip ==
    (pc = "retrying" /\ pass = 1) => retry_failed_files = DriverRecorded

\* C6 as stated: when every file name the export driver recorded was
\* converted in a retry pass (and update_failed_list raised nothing), the
\* ledger is deleted at the end of the pass.
C6_LedgerDeletedWhenAllConverted ==
    (/\ pc = "pass_done"
     /\ retry_failed_files # <<>>
     /\ ~update_raised
     /\ Range(DriverRecorded) \subseteq succeeded)
        => ledger = NoLedger

\* C7 as stated: after update_failed_list (no exception raised) the ledger
\* is deleted when the still-failing list is empty, and else the file names
\* it records are exactly those of the still-failing list.
C7_UpdateLeavesStillFailing ==
    (/\ pc = "pass_done"
     /\ retry_failed_files # <<>>
     /\ ~update_raised)
        => IF still_failed_files = <<>>
           THEN ledger = NoLedger
           ELSE RecordedNames(ledger) = Range(still_failed_files)

\* the positions of retry_failed_files the loop of the pass has left behind
Handled == {i \in 1..Len(retry_failed_files) : i < file_pos}

\* the attempt with this result is a successful one
IsSuccess(result) == result

\* C12: in a retry pass, every file name whose source document exists has,
\* once the loop has left it, between 1 and 3 attempts, none of them after a
\* successful one, and is in exactly one of the terminal states: SUCCEEDED
\* when its last attempt succeeded, STILL_FAILING when 3 attempts failed; a
\* file the loop is still at has fewer than 3 attempts, all failed.
C12_BoundedAttemptsOneTerminal ==
    pc \in {"retrying", "pass_done"} =>
        \A i \in 1..Len(retry_failed_files) :
            LET file == retry_failed_files[i]
                log == attempt_log[i]
            IN  file \in source_docs =>
                  /\ Len(log) <= 3
                  /\ \A k \in 1..Len(log) - 1 : ~log[k]
                  /\ i \in Handled =>
                       /\ Len(log) >= 1
                       /\ (file \in succeeded) # (file \in Range(still_failed_files))
                       /\ file \in succeeded <=> log[Len(log)]
                       /\ file \in Range(still_failed_files) <=>
                            (Len(log) = 3 /\ SelectSeq(log, IsSuccess) = <<>>)
                  /\ i \notin Handled =>
                       /\ Len(log) < 3
                       /\ SelectSeq(log, IsSuccess) = <<>>
                       /\ file \notin succeeded
                       /\ file \notin Range(still_failed_files)

\* a pass has ended with one file converted at its third attempt and
\* another one failed three times
C12_Witness ==
    /\ pc = "pass_done"
    /\ \E i, j \in 1..Len(retry_failed_files) :
          /\ attempt_log[i] = <<FALSE, FALSE, TRUE>>
          /\ attempt_log[j] = <<FALSE, FALSE, FALSE>>
          /\ retry_failed_files[i] \in succeeded
          /\ retry_failed_files[j] \in Range(still_failed_files)

\* C13: after a retry pass whose update_failed_list raised nothing, a file
\* name whose 3 attempts all failed is in still_failed_files and recorded in
\* the ledger, and a file name that succeeded at some attempt is not
\* recorded in the ledger.
C13_FailedKeptSucceededPruned ==
    (pc = "pass_done" /\ retry_failed_files # <<>> /\ ~update_raised) =>
        \A i \in 1..Len(retry_failed_files) :
            LET file == retry_failed_files[i]
                log == attempt_log[i]
            IN  /\ (Len(log) = 3 /\ SelectSeq(log, IsSuccess) = <<>>) =>
                      /\ file \in Range(still_failed_files)
                      /\ file \in RecordedNames(ledger)
                /\ SelectSeq(log, IsSuccess) # <<>> =>
                      file \notin RecordedNames(ledger)

\* the second pass over a ledger has ended with one of its files failed
\* three times and kept, after the first pass had pruned a converted one
C13_Witness ==
    /\ pc = "pass_done"
    /\ pass = 2
    /\ ~update_raised
    /\ Len(failed_files) = 2
    /\ \E i \in 1..Len(retry_failed_files) :
          /\ attempt_log[i] = <<FALSE, FALSE, FALSE>>
          /\ retry_failed_files[i] \in RecordedNames(ledger)
    /\ \E j \in 1..Len(failed_files) :
          /\ failed_files[j][1] \in pdfs
          /\ failed_files[j][1] \notin RecordedNames(ledger)

\* C21: when collect_failed_files catches an exception of reading the ledger
\* it returns an empty list of file names, retry_failed_conversions skips
\* the tag (line 378), and neither that step nor the end of the skipped pass
\* changes the ledger file, the PDFs or the counters of the pass, which stay
\* at their initial zero.
C21_UnreadableLedgerSkipped ==
    [][/\ (pass' # pass /\ read_raised') =>
             /\ retry_failed_files' = <<>>
             /\ pc' = "pass_skipped"
             /\ ledger' = ledger
             /\ pdfs' = pdfs
             /\ total_files' = 0 /\ total_success' = 0 /\ total_still_failed' = 0
       /\ pc = "pass_skipped" =>
             /\ pc' = "pass_done"
             /\ UNCHANGED <<ledger, pdfs, total_files, total_success,
                            total_still_failed, still_failed_files,
                            retry_success_count>>]_vars

\* the second pass found the ledger that the first pass had rewritten
\* unreadable, and has ended
C21_Witness ==
    /\ pc = "pass_done"
    /\ pass = 2
    /\ read_raised
    /\ ledger # NoLedger
    /\ pdfs # {}
    /\ total_files = 0
    /\ retry_failed_files = <<>>

\* C26 as stated: after a full retry pass, succeeded plus still-failing of
\* the tag is the number of file names read from its ledger, the total of
\* files processed is total succeeded plus total still-failing, and the
\* total still-failing is the still-failing count of the tag (the pass has
\* one tag), file names without a source document included.
C26_ReportedCountsConsistent ==
    (pc = "pass_done" /\ retry_failed_files # <<>>) =>
        /\ retry_success_count + Len(still_failed_files) = Len(retry_failed_files)
        /\ total_files = total_success + total_still_failed
        /\ total_still_failed = Len(still_failed_files)

----------------------------------------------------------------------------
(* The pagination policy of convert_excel_file_to_pdf and of              *)
(* convert_excel_to_pdf_single_file                                        *)

FitOnePageRows == 45
RowsPerPage == 48
HeaderRows == 2

\* Python's round(num / den) for positive integers: to the nearest integer,
\* a half to the even one
PyRound(num, den) ==
    LET q == num \div den
        r == num % den
    IN  IF 2 * r < den THEN q
        ELSE IF 2 * r > den THEN q + 1
        ELSE IF q % 2 = 0 THEN q ELSE q + 1

\* int(num / den) in the place of round
PagesNeeded_Truncated(rows) == Max(1, (rows + HeaderRows) \div RowsPerPage)

\* convert_to_pdf.py lines 101-103
PagesNeeded(rows) == Max(1, PyRound(rows + HeaderRows, RowsPerPage))

\* convert_to_pdf.py lines 94-107: the value FitToPagesTall is left with;
\* 0 is Python's False
FitToPagesTall(rows) ==
    IF rows <= FitOnePageRows THEN 1
    ELSE IF PagesNeeded(rows) > 1 THEN PagesNeeded(rows) ELSE 0

\* retry_failed_conversions.py lines 204-217
FitToPagesTallRetry(rows) ==
    IF rows <= FitOnePageRows THEN 1
    ELSE IF PagesNeeded(rows) > 1 THEN PagesNeeded(rows) ELSE 0

Converters == {"convert_excel_file_to_pdf", "convert_excel_to_pdf_single_file"}

InitPages ==
    /\ SheetIdle
    /\ ExportIdle
    /\ RetryIdle
    /\ ContactIdle
    /\ FilesIdle
    /\ pc = "opened"
    /\ converter \in Converters
    /\ last_row \in 1..MaxLastRow
    /\ fit_to_pages_tall = 1
    /\ conv = NoConversion

PagesFrame ==
    UNCHANGED <<ncols, data, volunteer_records, sorted_keys, next_key, tab_folder,
                processed_count, save_errors, first_run, exportVars,
                retryVars, contactVars, fileVars>>

\* convert_to_pdf.py lines 68-118: the page setup of the sheet
SetupPages ==
    /\ pc = "opened"
    /\ converter = "convert_excel_file_to_pdf"
    /\ fit_to_pages_tall' = FitToPagesTall(last_row)
    /\ pc' = "set_up"
    /\ UNCHANGED <<converter, last_row, conv>>
    /\ PagesFrame

\* retry_failed_conversions.py lines 180-228: the page setup of the sheet
SetupPagesRetry ==
    /\ pc = "opened"
    /\ converter = "convert_excel_to_pdf_single_file"
    /\ fit_to_pages_tall' = FitToPagesTallRetry(last_row)
    /\ pc' = "set_up"
    /\ UNCHANGED <<converter, last_row, conv>>
    /\ PagesFrame

NextPages == SetupPages \/ SetupPagesRetry

SpecPages == InitPages /\ [][NextPages]_vars

\* C8 as stated: after the page setup FitToPagesTall is 1 for a row count of
\* at most 45 and max(1, round((row_count + 2) / 48)) for a larger one.
C8_PagesTallIsRoundedQuotient ==
    pc = "set_up" =>
        fit_to_pages_tall = IF last_row <= 45 THEN 1
                            ELSE Max(1, PyRound(last_row + 2, 48))

\* C8 amended: after the page setup FitToPagesTall is 1 for a row count of
\* at most 45, False (0, no limit of pages) for 46 to 69 rows, and from 70
\* rows on the number p of pages nearest to (row_count + 2) / 48, the even
\* one of the two when both are as near; 40 rows give 1 and 100 rows give 2.
C8_PagesTallByRange ==
    pc = "set_up" =>
        /\ last_row <= 45 => fit_to_pages_tall = 1
        /\ (last_row >= 46 /\ last_row <= 69) => fit_to_pages_tall = 0
        /\ last_row >= 70 =>
             LET p == fit_to_pages_tall
                 d == 48 * p - (last_row + 2)
             IN  /\ p >= 2
                 /\ -24 <= d /\ d <= 24
                 /\ (d = 24 \/ d = -24) => p % 2 = 0
        /\ last_row = 40 => fit_to_pages_tall = 1
        /\ last_row = 100 => fit_to_pages_tall = 2

\* a sheet of 100 rows was set up to 2 pages
C8_Witness ==
    /\ pc = "set_up"
    /\ last_row = 100
    /\ fit_to_pages_tall = 2

----------------------------------------------------------------------------
(* The contact-repair heuristic of convert_excel_to_pdf_single_file        *)
(* (retry_failed_conversions.py lines 100-131), the same as lines 29-60 of *)
(* create_volunteer_sheets.py                                              *)

\* a missing value of the DataFrame column
NaNValue == [t |-> "nan", s |-> <<>>, n |-> 0]

\* "1111111111"
Sentinel == <<"1", "1", "1", "1", "1", "1", "1", "1", "1", "1">>

\* char.isdigit() or char in ['+', '-', ' ', '(', ')']
AllowedChar(c) ==
    \/ c \in Range(DigitChar)
    \/ c \in {"+", "-", " ", "(", ")"}

\* a cleaning that looks at the first character only
CleanedVal_LeadingOnly(chars) ==
    IF chars = <<>> THEN <<>>
    ELSE IF AllowedChar(Head(chars)) THEN chars
    ELSE Tail(chars)

\* lines 122-125: cleaned_val
RECURSIVE CleanedVal(_)
CleanedVal(chars) ==
    IF chars = <<>> THEN <<>>
    ELSE IF AllowedChar(Head(chars)) THEN <<Head(chars)>> \o CleanedVal(Tail(chars))
    ELSE CleanedVal(Tail(chars))

\* line 110: fillna("1111111111")
FillNa(val) == IF val.t = "nan" THEN Str(Sentinel) ELSE val

\* the repair without the fall back to the sentinel of lines 126-128
RepairedValue_NoFallback(val) ==
    IF val.t = "nan" \/ (val.t = "str" /\ val.s # <<>> /\ Head(val.s) = "#")
    THEN Str(Sentinel)
    ELSE IF val.t = "str" /\ val.s = <<>> THEN Str(Sentinel)
    ELSE IF val.t = "str" THEN Str(CleanedVal(val.s))
    ELSE val

\* lines 113-131: the value the loop leaves at the place of val (a value
\* of the column after fillna)
RepairedValue(val) ==
    IF val.t = "nan" \/ (val.t = "str" /\ val.s # <<>> /\ Head(val.s) = "#")
    THEN Str(Sentinel)
    ELSE IF val.t = "str" /\ val.s = <<>> THEN Str(Sentinel)
    ELSE IF val.t = "str"
         THEN IF CleanedVal(val.s) = <<>> THEN Str(Sentinel) ELSE Str(CleanedVal(val.s))
    ELSE val

\* lines 113-131: whether the loop sets modified at val
SetsModified(val) ==
    \/ val.t = "nan"
    \/ val.t = "str" /\ val.s # <<>> /\ Head(val.s) = "#"
    \/ val.t = "str" /\ val.s = <<>>
    \/ val.t = "str" /\ CleanedVal(val.s) # val.s

\* lines 110-131 on the whole column
RepairedColumn(column) == [i \in 1..Len(column) |-> RepairedValue(FillNa(column[i]))]

ColumnModified(column) == \E i \in 1..Len(column) : SetsModified(FillNa(column[i]))

ContactChars == {"1", "+", "#", "a"}

StringsUpTo(n) == UNION {[1..k -> ContactChars] : k \in 0..n}

ContactValues == {NaNValue, Num(5)} \cup {Str(chars) : chars \in StringsUpTo(MaxChars)}

InitContact ==
    /\ SheetIdle
    /\ ExportIdle
    /\ RetryIdle
    /\ PagesIdle
    /\ FilesIdle
    /\ pc = "read"
    /\ mobile \in UNION {[1..k -> ContactValues] : k \in 1..MaxColumn}
    /\ mobile_before = mobile
    /\ modified = FALSE
    /\ applied = 0
    /\ doc_file = <<>>
    /\ handed_file = <<>>

\* lines 100-131: the repair of the mobile column of the DataFrame
RepairMobile ==
    /\ pc = "read"
    /\ applied < 2
    /\ mobile_before' = mobile
    /\ mobile' = RepairedColumn(mobile)
    /\ modified' = ColumnModified(mobile)
    /\ applied' = applied + 1
    /\ UNCHANGED <<doc_file, handed_file>>
    /\ UNCHANGED <<pc, ncols, data, volunteer_records, sorted_keys, next_key,
                   tab_folder, processed_count, save_errors, first_run>>
    /\ UNCHANGED <<exportVars, retryVars, pageVars, fileVars>>

NextContact == RepairMobile

SpecContact == InitContact /\ [][NextContact]_vars

IsAllowed(c) == c \in {"0", "1", "2", "3", "4", "5", "6", "7", "8", "9", "+", "-", "(", ")", " "}

\* C9: after one repair, at every place of the column: a null value, an
\* empty string and a string starting with '#' have become the sentinel; any
\* other string has become what is left of it without the characters
\* outside digits, '+', '-', '(', ')' and space, or the sentinel when nothing
\* is left; a string of allowed characters only is unchanged.
C9_RepairMapsEachValue ==
    applied = 1 =>
        \A i \in 1..Len(mobile_before) :
            LET old == mobile_before[i]
                new == mobile[i]
            IN  /\ (old.t = "nan" \/ (old.t = "str" /\ old.s = <<>>)
                        \/ (old.t = "str" /\ old.s # <<>> /\ old.s[1] = "#"))
                      => new = Str(Sentinel)
                /\ (old.t = "str" /\ old.s # <<>> /\ old.s[1] # "#")
                      => /\ new.t = "str"
                         /\ new.s = IF SelectSeq(old.s, IsAllowed) = <<>> THEN Sentinel
                                    ELSE SelectSeq(old.s, IsAllowed)
                         /\ (\A k \in 1..Len(old.s) : IsAllowed(old.s[k])) => new = old

\* a string with an invalid and a valid character has been repaired to the
\* valid one
C9_Witness ==
    /\ applied = 1
    /\ \E i \in 1..Len(mobile_before) :
          /\ mobile_before[i] = Str(<<"a", "1", "#">>)
          /\ mobile[i] = Str(<<"1">>)

\* C10: the second repair leaves every value as the first repair made it and
\* reports no modification.
C10_RepairIdempotent ==
    applied = 2 => (mobile = mobile_before /\ modified = FALSE)

\* a value that the first repair changed has been repaired twice
C10_Witness ==
    /\ applied = 2
    /\ modified = FALSE
    /\ \E i \in 1..Len(mobile) : mobile[i] = Str(<<"+", "1">>)

----------------------------------------------------------------------------
(* The repair step of a retry attempt on a document of the Renderer:      *)
(* convert_excel_to_pdf_single_file lines 88-161 on a file that           *)
(* process_sheet lines 242-341 has written                                 *)

\* str.lower()
Lower(chars) ==
    LET upper == <<"A", "B", "C", "D", "E", "F", "G", "H", "I", "J", "K", "L", "M",
                   "N", "O", "P", "Q", "R", "S", "T", "U", "V", "W", "X", "Y", "Z">>
        lower == <<"a", "b", "c", "d", "e", "f", "g", "h", "i", "j", "k", "l", "m",
                   "n", "o", "p", "q", "r", "s", "t", "u", "v", "w", "x", "y", "z">>
    IN  [i \in 1..Len(chars) |->
            IF \E k \in 1..Len(upper) : upper[k] = chars[i]
            THEN lower[CHOOSE k \in 1..Len(upper) : upper[k] = chars[i]]
            ELSE chars[i]]

\* sub in chars
Contains(chars, sub) ==
    \E i \in 1..(Len(chars) - Len(sub) + 1) :
        SubSeq(chars, i, i + Len(sub) - 1) = sub

\* create_volunteer_sheets.py line 256: the value of the merged cell A1
DocTitle(doc) ==
    <<"K", "r", "i", "y", "a", " ", "V", "o", "l", "u", "n", "t", "e", "e", "r",
      "N", "a", "m", "e", ":", " ">>
    \o doc.name
    \o <<" ", " ", " ", " ", "V", "o", "l", "u", "n", "t", "e", "e", "r", " ",
         "n", "u", "m", "b", "e", "r", ":", " ">>
    \o doc.number

\* create_volunteer_sheets.py line 276: headers
DocCaptions ==
    << Str(<<"S", " ", "N", "o">>), Str(<<"M", "a", "n", "d", "a", "l">>),
       Str(<<"J", "S", "P", " ", "I", "d">>), Str(<<"N", "a", "m", "e">>),
       Str(<<"M", "o", "b", "i", "l", "e">>),
       Str(<<"S", "t", "a", "t", "u", "s">>) >>

\* position of the Mobile caption in the document
MobileColumnOfDoc == 5

\* create_volunteer_sheets.py lines 246-303: the rows of the saved sheet:
\* the merged title, the captions, one row per record
DocSheet(doc) ==
    << <<Str(DocTitle(doc)), None, None, None, None, None>>, DocCaptions >>
    \o [j \in 1..Len(doc.rows) |->
          <<Num(doc.rows[j].sno)>> \o doc.rows[j].cells \o <<doc.rows[j].status>>]

\* pd.read_excel on one data cell: an empty cell and an empty text are NaN;
\* every column holds its caption as data, so no column is converted to
\* numbers and the other values stay as they are
ReadCell(v) == IF v.t = "none" \/ (v.t = "str" /\ v.s = <<>>) THEN NaNValue ELSE v

\* "Unnamed: k" for the header cell at zero-based position k
UnnamedColumn(k) == <<"U", "n", "n", "a", "m", "e", "d", ":", " ">> \o IntToStr(k)

\* df.columns of pd.read_excel(excel_file): the first row is the header
DocColumns(rows) ==
    [c \in 1..Len(rows[1]) |->
        IF rows[1][c].t = "str" /\ rows[1][c].s # <<>> THEN rows[1][c].s
        ELSE UnnamedColumn(c - 1)]

\* the data of pd.read_excel(excel_file): every row below the first
DocData(rows) ==
    [r \in 1..Len(rows) - 1 |-> [c \in 1..Len(rows[r + 1]) |-> ReadCell(rows[r + 1][c])]]

\* retry_failed_conversions.py line 96
NamesContact(col) ==
    \/ Contains(Lower(col), <<"m", "o", "b", "i", "l", "e">>)
    \/ Contains(Lower(col), <<"p", "h", "o", "n", "e">>)

\* lines 94-98: position of the first column whose name mentions mobile or
\* phone, 0 when there is none
MobileCol(columns) ==
    LET hits == {c \in 1..Len(columns) : NamesContact(columns[c])}
    IN  IF hits = {} THEN 0 ELSE CHOOSE c \in hits : \A d \in hits : c <= d

\* df.to_excel(temp_excel_file, index=False): the column names, then the
\* data, NaN as an empty cell
DocToExcel(columns, df) ==
    <<[c \in 1..Len(columns) |-> Str(columns[c])]>>
    \o [r \in 1..Len(df) |->
          [c \in 1..Len(df[r]) |-> IF df[r][c].t = "nan" THEN None ELSE df[r][c]]]

\* lines 101-131: df after the repair of the column at position col
RepairedFrame(df, col) ==
    LET column == [r \in 1..Len(df) |-> df[r][col]]
        fixed == RepairedColumn(column)
    IN  [r \in 1..Len(df) |-> [df[r] EXCEPT ![col] = fixed[r]]]

\* lines 141-144: df["Mobile"] = "1111111111"
WithMobileColumn(df) == [r \in 1..Len(df) |-> Append(df[r], Str(Sentinel))]

\* lines 88-161: the rows of excel_file_to_use: the temporary file when the
\* repair has modified the DataFrame, else (and when pandas raised) the
\* document as it is
FileToUse(rows, pandas_error) ==
    LET columns == DocColumns(rows)
        df == DocData(rows)
        col == MobileCol(columns)
        column == [r \in 1..Len(df) |-> df[r][col]]
    IN  IF pandas_error THEN rows
        ELSE IF col = 0
             THEN DocToExcel(Append(columns, <<"M", "o", "b", "i", "l", "e">>),
                             WithMobileColumn(df))
        ELSE IF ColumnModified(column) THEN DocToExcel(columns, RepairedFrame(df, col))
        ELSE rows

\* names and contact values of the source rows of the documents
DocNameValues == {Str(<<"A">>), Str(<<"P", "h", "o", "n", "e">>)}
DocMobileValues ==
    {None, Str(<<>>), Str(<<"#", "E">>), Str(<<"1">>), Str(<<"a", "1">>), Num(5)}

\* a sheet whose rows have a contact value at index 5 (Mobile)
ContactSheet(names, contacts) ==
    <<HeaderRow(9)>> \o
    [i \in 1..Len(names) |-> [MkRow(i, names[i], None, 9) EXCEPT ![6] = contacts[i]]]

\* the documents process_sheet saves for the groups of records
SavedDocuments(records) ==
    {[file |-> ExcelName(records, records[g].key),
      doc |-> Document(records, records[g].key)] : g \in 1..Len(records)}

\* the state in which process_sheet has returned with every document saved
InitRepairDoc ==
    /\ ExportIdle
    /\ RetryIdle
    /\ PagesIdle
    /\ FilesIdle
    /\ pc = "done"
    /\ ncols = 9
    /\ \E len \in 1..MaxDocRows :
         \E names \in [1..len -> DocNameValues], contacts \in [1..len -> DocMobileValues] :
            data = ContactSheet(names, contacts)
    /\ volunteer_records = GroupRecords(data)
    /\ sorted_keys = SortedKeys(volunteer_records)
    /\ next_key = Len(sorted_keys) + 1
    /\ tab_folder = SavedDocuments(volunteer_records)
    /\ processed_count = Len(volunteer_records)
    /\ save_errors = {}
    /\ first_run = <<>>
    /\ mobile = <<>>
    /\ mobile_before = <<>>
    /\ modified = FALSE
    /\ applied = 0
    /\ doc_file = <<>>
    /\ handed_file = <<>>

\* convert_excel_to_pdf_single_file lines 88-177 on one document of the tab
\* folder: the repair with pandas, which may raise (158), and the choice of
\* the file that Workbooks.Open is given
RepairDocument ==
    /\ pc = "done"
    /\ \E f \in tab_folder, pandas_error \in BOOLEAN :
         /\ doc_file' = DocSheet(f.doc)
         /\ handed_file' = FileToUse(DocSheet(f.doc), pandas_error)
         /\ pc' = IF pandas_error THEN "handed_unrepaired" ELSE "handed"
    /\ UNCHANGED <<mobile, mobile_before, modified, applied>>
    /\ UNCHANGED <<ncols, data, volunteer_records, sorted_keys, next_key,
                   tab_folder, processed_count, save_errors, first_run>>
    /\ UNCHANGED <<exportVars, retryVars, pageVars, fileVars>>

NextRepairDoc == RepairDocument

SpecRepairDoc == InitRepairDoc /\ [][NextRepairDoc]_vars

\* a contact value that the repair is to replace by the sentinel
NeedsSentinel(v) ==
    \/ v.t = "none"
    \/ v.t = "str" /\ v.s = <<>>
    \/ v.t = "str" /\ v.s # <<>> /\ v.s[1] = "#"

\* C11 as stated: when the repair step has run (pandas raised nothing) on a
\* document of the Renderer, every null, empty or error-marker value of the
\* document's Mobile column is the sentinel in the file handed to the
\* backend, and every row of that file has 6 columns.
C11_RepairAppliedToDocument ==
    pc = "handed" =>
        /\ Len(handed_file) = Len(doc_file)
        /\ \A r \in 3..Len(doc_file) :
              NeedsSentinel(doc_file[r][MobileColumnOfDoc])
                  => handed_file[r][MobileColumnOfDoc] = Str(Sentinel)
        /\ \A r \in 1..Len(handed_file) : Len(handed_file[r]) = 6

----------------------------------------------------------------------------
(* One conversion, backend call by backend call: convert_excel_file_to_pdf *)
(* (convert_to_pdf.py lines 49-155) and convert_excel_to_pdf_single_file   *)
(* (retry_failed_conversions.py lines 163-312)                             *)

InitConvert ==
    /\ SheetIdle
    /\ ExportIdle
    /\ RetryIdle
    /\ ContactIdle
    /\ FilesIdle
    /\ pc = "call"
    /\ converter \in Converters
    /\ last_row \in {40, 60, 100}
    /\ fit_to_pages_tall = 1
    /\ \E app \in {"none", "passed"} :
         /\ converter = "convert_excel_to_pdf_single_file" => app = "none"
         /\ conv = [NoConversion EXCEPT !.app = app]

ConvFrame ==
    /\ UNCHANGED <<converter, last_row>>
    /\ UNCHANGED <<ncols, data, volunteer_records, sorted_keys, next_key,
                   tab_folder, processed_count, save_errors, first_run>>
    /\ UNCHANGED <<exportVars, retryVars, contactVars, fileVars>>

\* the backend call name is made
Called(c, name) == [c EXCEPT !.calls = Append(@, name)]

\* the backend call name is made and raises
Raised(c, name) == [Called(c, name) EXCEPT !.failed_at = name]

\* convert_to_pdf.py lines 56-62: the session given by the caller is used
UsePassedSession ==
    /\ pc = "call"
    /\ conv.app = "passed"
    /\ pc' = "open"
    /\ UNCHANGED <<conv, fit_to_pages_tall>>
    /\ ConvFrame

\* convert_to_pdf.py lines 56-60, retry_failed_conversions.py lines
\* 164-166: Dispatch, then Visible and DisplayAlerts are set; each may
\* raise. In convert_excel_file_to_pdf the handler of line 136 follows, with
\* locally_created still False; in convert_excel_to_pdf_single_file the
\* statements are outside the inner try, so that the handler of line 302
\* returns False and the finally clause of line 287 is not run
CreateLocalSession ==
    /\ pc = "call"
    /\ conv.app = "none"
    /\ \E step \in {"ok", "dispatch_raised", "visible_raised"} :
         LET dispatched == [Called(conv, "Dispatch") EXCEPT !.session = "alive"]
             failed == IF step = "dispatch_raised" THEN Raised(conv, "Dispatch")
                       ELSE [Called(dispatched, "Visible") EXCEPT !.failed_at = "Visible"]
         IN  IF step = "ok"
             THEN /\ conv' = [Called(dispatched, "Visible") EXCEPT !.locally_created = TRUE]
                  /\ pc' = "open"
             ELSE IF converter = "convert_excel_file_to_pdf"
             THEN /\ conv' = failed
                  /\ pc' = "handler"
             ELSE /\ conv' = [failed EXCEPT !.result = "false"]
                  /\ pc' = "returned"
    /\ UNCHANGED fit_to_pages_tall
    /\ ConvFrame

\* convert_to_pdf.py line 65, retry_failed_conversions.py lines 171-177
OpenWorkbook ==
    /\ pc = "open"
    /\ \E ok \in BOOLEAN :
         IF ok
         THEN /\ conv' = [Called(conv, "Open") EXCEPT !.wb = "open"]
              /\ pc' = "setup"
         ELSE /\ conv' = Raised(conv, "Open")
              /\ pc' = "handler"
    /\ UNCHANGED fit_to_pages_tall
    /\ ConvFrame

\* convert_to_pdf.py lines 68-118, retry_failed_conversions.py lines
\* 180-228: the page setup of the sheet; a call that raises leaves
\* FitToPagesTall as it was
SetupSheet ==
    /\ pc = "setup"
    /\ \E ok \in BOOLEAN :
         IF ok
         THEN /\ conv' = Called(conv, "PageSetup")
              /\ fit_to_pages_tall' = IF converter = "convert_excel_file_to_pdf"
                                      THEN FitToPagesTall(last_row)
                                      ELSE FitToPagesTallRetry(last_row)
              /\ pc' = "export"
         ELSE /\ conv' = Raised(conv, "PageSetup")
              /\ UNCHANGED fit_to_pages_tall
              /\ pc' = "handler"
    /\ ConvFrame

\* convert_to_pdf.py lines 121-128: ExportAsFixedFormat, to the handler
\* when it raises. retry_failed_conversions.py lines 231-271: when it
\* raises the first sheet is exported (alt: that call succeeds), and the
\* function goes on to line 274 in every case
ExportWorkbook ==
    /\ pc = "export"
    /\ \E ok \in BOOLEAN, alt \in BOOLEAN :
         IF ok
         THEN /\ alt
              /\ conv' = [Called(conv, "Export") EXCEPT !.success = TRUE]
              /\ pc' = "close"
         ELSE IF converter = "convert_excel_file_to_pdf"
         THEN /\ alt
              /\ conv' = Raised(conv, "Export")
              /\ pc' = "handler"
         ELSE /\ conv' = [Called(Raised(conv, "Export"), "ExportSheet")
                              EXCEPT !.success = alt]
              /\ pc' = "close"
    /\ UNCHANGED fit_to_pages_tall
    /\ ConvFrame

\* convert_to_pdf.py lines 131-134, retry_failed_conversions.py lines
\* 274-276: the workbook is closed and the result returned
CloseWorkbook ==
    /\ pc = "close"
    /\ \E ok \in BOOLEAN :
         IF ok
         THEN /\ conv' = [Called(conv, "Close(SaveChanges=False)") EXCEPT
                             !.wb = "closed",
                             !.result = IF conv.success THEN "true" ELSE "false"]
              /\ pc' = "finally"
         ELSE /\ conv' = Raised(conv, "Close(SaveChanges=False)")
              /\ pc' = "handler"
    /\ UNCHANGED fit_to_pages_tall
    /\ ConvFrame

\* a handler that leaves the workbook alone
HandlerCloses_Never(wb) == FALSE

\* convert_to_pdf.py line 142: 'wb' in locals(); in
\* retry_failed_conversions.py line 282 wb.Close raises the NameError of an
\* unbound wb, which the bare except swallows
HandlerCloses(wb) == wb # "unbound"

\* convert_to_pdf.py lines 136-147, retry_failed_conversions.py lines
\* 278-285: the workbook is closed when there is one, what that raises is
\* swallowed, and False is returned
HandleError ==
    /\ pc = "handler"
    /\ \E raises \in BOOLEAN :
         IF HandlerCloses(conv.wb)
         THEN conv' = [Called(conv, "Close(SaveChanges=False)") EXCEPT
                          !.wb = IF raises THEN @ ELSE "closed",
                          !.result = "false"]
         ELSE /\ ~raises
              /\ conv' = [conv EXCEPT !.result = "false"]
    /\ pc' = "finally"
    /\ UNCHANGED fit_to_pages_tall
    /\ ConvFrame

\* convert_to_pdf.py lines 149-155: Quit when locally_created;
\* retry_failed_conversions.py lines 287-292: Quit. What Quit raises is
\* swallowed
QuitLocalSession ==
    /\ pc = "finally"
    /\ IF converter = "convert_excel_to_pdf_single_file" \/ conv.locally_created
       THEN conv' = [Called(conv, "Quit") EXCEPT !.session = "quit"]
       ELSE UNCHANGED conv
    /\ pc' = "returned"
    /\ UNCHANGED fit_to_pages_tall
    /\ ConvFrame

NextConvert ==
    \/ UsePassedSession
    \/ CreateLocalSession
    \/ OpenWorkbook
    \/ SetupSheet
    \/ ExportWorkbook
    \/ CloseWorkbook
    \/ HandleError
    \/ QuitLocalSession

SpecConvert == InitConvert /\ [][NextConvert]_vars

\* position of the first call named name among the backend calls, 0 if none
CallAt(name) ==
    LET hits == {i \in 1..Len(conv.calls) : conv.calls[i] = name}
    IN  IF hits = {} THEN 0 ELSE CHOOSE i \in hits : \A j \in hits : i <= j

\* C15: when convert_excel_file_to_pdf has returned after its workbook was
\* opened and the page setup or the export raised, the call that follows the
\* failed one is wb.Close(SaveChanges=False), no backend call other than the
\* Quit of its own session comes after it, and the result is the tuple with
\* False; the function never ends in another way than by returning.
C15_ClosedAfterBackendFailure ==
    /\ pc = "returned" => conv.result \in {"true", "false"}
    /\ (/\ pc = "returned"
        /\ converter = "convert_excel_file_to_pdf"
        /\ conv.failed_at \in {"PageSetup", "Export"}) =>
           LET at == CallAt(conv.failed_at)
           IN  /\ CallAt("Open") # 0
               /\ at # 0
               /\ Len(conv.calls) > at
               /\ conv.calls[at + 1] = "Close(SaveChanges=False)"
               /\ \A j \in (at + 2)..Len(conv.calls) : conv.calls[j] = "Quit"
               /\ conv.result = "false"

\* the export raised in a session passed by the caller and the workbook was
\* closed
C15_Witness ==
    /\ pc = "returned"
    /\ converter = "convert_excel_file_to_pdf"
    /\ conv.app = "passed"
    /\ conv.calls = <<"Open", "PageSetup", "Export", "Close(SaveChanges=False)">>
    /\ conv.wb = "closed"
    /\ conv.result = "false"

\* C18 as stated, for the two functions that convert one file: when the
\* function has returned, a session that it created has been quit by it.
C18_CreatedSessionQuit ==
    pc = "returned" => conv.session # "alive"

----------------------------------------------------------------------------
(* The folders of the export pass (process_excel_folders) and of the      *)
(* retry pass (find_failed_list_files, retry_failed_conversions). A name   *)
(* is a sequence of characters and fixed pieces, a path the sequence of    *)
(* the names below the directory of the scripts.                           *)

Mandals == {<<"a">>, <<"b">>}

\* str.replace(piece, "")
Without(name, piece) == SelectSeq(name, LAMBDA c : c # piece)

\* convert_to_pdf.py line 389
FailedListName(tab_name) == <<"failed_list_">> \o tab_name \o <<".xlsx">>

\* find_district_excel_folders lines 403-411: the folders excels_*
DistrictFolders ==
    {f[1] : f \in {g \in folders : Len(g) = 1 /\ g[1] # <<>> /\ g[1][1] = "excels_"}}

\* the folders of some districts with their mandal folders, as
\* create_volunteer_sheets leaves them, with or without folders "excels"
\* and "pdfs" that hold a ledger of their own
InitFolders ==
    /\ SheetIdle
    /\ ExportIdle
    /\ RetryIdle
    /\ PagesIdle
    /\ ContactIdle
    /\ pc = "folders"
    /\ input_file = <<>>
    /\ input_file_path = <<>>
    /\ district_name = <<>>
    /\ excels_folder = <<>>
    /\ \E ds \in SUBSET {<<>>, <<"k">>, <<"w", "g">>} \ {{}}, ms \in SUBSET Mandals \ {{}}, plain \in SUBSET Mandals :
         /\ folders =
               {<< <<"excels_">> \o d >> : d \in ds} \cup
               {<< <<"excels_">> \o d, m >> : d \in ds, m \in ms} \cup
               {<< <<"pdfs_">> \o d >> : d \in ds} \cup
               {<< <<"pdfs_">> \o d, m >> : d \in ds, m \in ms} \cup
               (IF plain = {} THEN {} ELSE {<< <<"excels">> >>, << <<"pdfs">> >>}) \cup
               {<< <<"excels">>, m >> : m \in plain} \cup
               {<< <<"pdfs">>, m >> : m \in plain}
         /\ ledger_files = {<< <<"pdfs">>, m, FailedListName(m) >> : m \in plain}
    /\ export_log = {}
    /\ failed_list_files = {}
    /\ retry_log = {}
    /\ repair_log = {}

FoldersFrame ==
    /\ UNCHANGED <<ncols, data, volunteer_records, sorted_keys, next_key,
                   tab_folder, processed_count, save_errors, first_run>>
    /\ UNCHANGED <<exportVars, retryVars, pageVars, contactVars>>
    /\ UNCHANGED <<input_file, input_file_path, district_name, excels_folder, repair_log>>

\* process_excel_folders lines 450-507 for one district folder and one of
\* its mandal folders: the folders of the conversion, and the ledger that
\* create_failed_list_excel writes when a file has failed
ExportMandal(district_folder, mandal) ==
    /\ pc = "folders"
    /\ district_folder \in DistrictFolders
    /\ <<district_folder, mandal>> \in folders
    /\ LET district == Without(district_folder, "excels_")
           pdfs_folder == << <<"pdfs_">> \o district >>
           input_folder == <<district_folder, mandal>>
           output_folder == pdfs_folder \o <<mandal>>
           failed_list_path == output_folder \o <<FailedListName(mandal)>>
       IN  /\ folders' = folders \cup {pdfs_folder, output_folder}
           /\ \E failed \in BOOLEAN :
                 IF failed
                 THEN /\ ledger_files' = ledger_files \cup {failed_list_path}
                      /\ export_log' = export_log \cup
                            {[ledger |-> failed_list_path,
                              input_folder |-> input_folder,
                              output_folder |-> output_folder]}
                 ELSE UNCHANGED <<ledger_files, export_log>>
    /\ UNCHANGED <<pc, failed_list_files, retry_log>>
    /\ FoldersFrame

\* find_failed_list_files lines 8-33: the files failed_list_*.xlsx in the
\* folders below "pdfs"
FindFailedListFiles ==
    /\ pc = "folders"
    /\ failed_list_files' =
          IF << <<"pdfs">> >> \notin folders THEN {}
          ELSE {p \in ledger_files :
                  /\ Len(p) = 3
                  /\ p[1] = <<"pdfs">>
                  /\ <<p[1], p[2]>> \in folders
                  /\ Len(p[3]) >= 2
                  /\ p[3][1] = "failed_list_"
                  /\ p[3][Len(p[3])] = ".xlsx"}
    /\ pc' = "scanned"
    /\ UNCHANGED <<folders, ledger_files, export_log, retry_log>>
    /\ FoldersFrame

\* retry_failed_conversions lines 374-395 for one ledger found (46 for the
\* tag): the folders it reads the documents from and writes the PDFs to
DeriveRetryFolders(failed_list_file) ==
    /\ pc = "scanned"
    /\ failed_list_file \in failed_list_files
    /\ LET basename == failed_list_file[Len(failed_list_file)]
           tab_name == Without(Without(basename, "failed_list_"), ".xlsx")
           source_folder == << <<"excels">>, Lower(tab_name) >>
           dest_folder == << <<"pdfs">>, Lower(tab_name) >>
       IN  /\ source_folder \in folders
           /\ retry_log' = retry_log \cup
                  {[ledger |-> failed_list_file,
                    source_folder |-> source_folder,
                    dest_folder |-> dest_folder]}
           /\ folders' = folders \cup {dest_folder}
    /\ UNCHANGED <<pc, ledger_files, export_log, failed_list_files>>
    /\ FoldersFrame

NextFolders ==
    \/ \E d \in DistrictFolders, m \in Mandals : ExportMandal(d, m)
    \/ FindFailedListFiles
    \/ \E f \in failed_list_files : DeriveRetryFolders(f)

SpecFolders == InitFolders /\ [][NextFolders]_vars

\* C27 as stated: once the retry pass has scanned, every ledger file the
\* export pass wrote is among the ledger files found, and the folders the
\* retry pass derives for it are the folders the export pass read the
\* documents from and wrote the PDFs to.
C27_ExportLedgersFoundByRetry ==
    pc = "scanned" =>
        /\ \A e \in export_log : e.ledger \in failed_list_files
        /\ \A e \in export_log, r \in retry_log :
              r.ledger = e.ledger =>
                  /\ r.source_folder = e.input_folder
                  /\ r.dest_folder = e.output_folder

----------------------------------------------------------------------------
(* create_volunteer_sheets: the district name and the output folder taken  *)
(* from the name of the input file                                         *)

\* os.path.splitext(name)[0]: the name up to its last dot, the whole name
\* when it has no dot after a character that is not a dot
SplitExtRoot(name) ==
    LET dots == {i \in 1..Len(name) :
                   name[i] = "." /\ \E j \in 1..(i - 1) : name[j] # "."}
    IN  IF dots = {} THEN name
        ELSE SubSeq(name, 1, (CHOOSE i \in dots : \A j \in dots : j <= i) - 1)

\* lines 93-98: the district name of an input file name
DistrictName(path) ==
    LET root == SplitExtRoot(path)
        cut == IF EndsWith(root, <<".", "t", "e", "m", "p">>)
               THEN SubSeq(root, 1, Len(root) - 5)
               ELSE root
        at == {i \in 1..(Len(cut) - 1) : SubSeq(cut, i, i + 1) = <<" ", "D">>}
    IN  IF at = {} THEN cut
        ELSE SubSeq(cut, 1, (CHOOSE i \in at : \A j \in at : i <= j) - 1)

\* create_volunteer_sheets is given a file <stem>.xlsx
InitDistrict ==
    /\ SheetIdle
    /\ ExportIdle
    /\ RetryIdle
    /\ PagesIdle
    /\ ContactIdle
    /\ pc = "given"
    /\ \E k \in 1..MaxStem :
         \E stem \in [1..k -> {"k", " ", "D", "."}] :
            input_file = stem \o <<".", "x", "l", "s", "x">>
    /\ input_file_path = input_file
    /\ district_name = <<>>
    /\ excels_folder = <<>>
    /\ folders = {}
    /\ ledger_files = {}
    /\ export_log = {}
    /\ failed_list_files = {}
    /\ retry_log = {}
    /\ repair_log = {}

DistrictFrame ==
    /\ UNCHANGED <<ncols, data, volunteer_records, sorted_keys, next_key,
                   tab_folder, processed_count, save_errors, first_run>>
    /\ UNCHANGED <<exportVars, retryVars, pageVars, contactVars>>
    /\ UNCHANGED <<input_file, folders, ledger_files, export_log,
                   failed_list_files, retry_log, repair_log>>

\* lines 16-90: the pre-processing; when it has modified a mobile value
\* and written the cleaned copy it goes on with <input>.temp.xlsx, when
\* nothing was modified or an exception was caught (88) with the input
PreProcess ==
    /\ pc = "given"
    /\ \E outcome \in {"modified", "unmodified", "raised"} :
          input_file_path' =
             IF outcome = "modified"
             THEN input_file_path \o <<".", "t", "e", "m", "p", ".", "x", "l", "s", "x">>
             ELSE input_file_path
    /\ pc' = "preprocessed"
    /\ UNCHANGED <<district_name, excels_folder>>
    /\ DistrictFrame

\* lines 93-107: district name and output folder
ExtractDistrict ==
    /\ pc = "preprocessed"
    /\ district_name' = DistrictName(input_file_path)
    /\ excels_folder' = <<"excels_">> \o Lower(district_name')
    /\ pc' = "extracted"
    /\ UNCHANGED input_file_path
    /\ DistrictFrame

NextDistrict == PreProcess \/ ExtractDistrict

SpecDistrict == InitDistrict /\ [][NextDistrict]_vars

\* C29 as stated: the district name and the output folder computed are
\* those computed for the input file name itself, whether or not the
\* pre-processing went on with the cleaned temporary copy.
C29_DistrictSameWithTempCopy ==
    pc = "extracted" =>
        /\ district_name = DistrictName(input_file)
        /\ excels_folder = <<"excels_">> \o Lower(DistrictName(input_file))

----------------------------------------------------------------------------
(* repair_excel_files.py: the documents of a tab folder rebuilt from the   *)
(* master file, after process_sheet has rendered them from it              *)

\* extract_data_from_master lines 70-87: pd.read_excel(master_file) takes
\* the first row as the header and gives NaN for an empty cell; the rows
\* whose cell at index 7 equals volunteer_name, as lists
ExtractDataFromMaster(rows, volunteer_name) ==
    LET all_data == [r \in 1..Len(rows) - 1 |->
                        [c \in 1..Len(rows[r + 1]) |->
                            IF rows[r + 1][c] = None THEN NaNValue ELSE rows[r + 1][c]]]
    IN  IF \E r \in 1..Len(all_data) : Len(all_data[r]) < 8
        THEN <<>>
        ELSE SelectSeq(all_data, LAMBDA row : Cell(row, 7) = Str(volunteer_name))

\* process_sheet is given a sheet of 9 columns whose rows have a name and
\* a mobile number
InitRepairFiles ==
    /\ ExportIdle
    /\ RetryIdle
    /\ PagesIdle
    /\ ContactIdle
    /\ FilesIdle
    /\ pc = "start"
    /\ ncols = 9
    /\ \E len \in 1..MaxRows :
         \E names \in [1..len -> NameValues \ {None}],
            phones \in [1..len -> {None, Num(7), Num(8)}] :
            data = <<HeaderRow(9)>> \o
                   [i \in 1..len |-> [MkRow(i, names[i], phones[i], 9) EXCEPT ![6] = Num(5)]]
    /\ volunteer_records = <<>>
    /\ sorted_keys = <<>>
    /\ next_key = 1
    /\ tab_folder = {}
    /\ processed_count = 0
    /\ save_errors = {}
    /\ first_run = <<>>

\* repair_corrupted_files lines 101-120 for one file *.xlsx of the folder
\* that find_corrupted_excel_files has listed (a read error, or a size
\* below 8000 bytes), with repair_excel_file (create_volunteer_sheets.py
\* 358-481): no rows found, the file is skipped; str(int(NaN)) of lines
\* 382 and 420 or the save raises, False is returned; else the old file is
\* copied to <file>.bak and the rebuilt workbook saved
RepairCorruptedFile(f) ==
    /\ pc = "done"
    /\ f \in tab_folder
    /\ f.file[Len(f.file)] = ".xlsx"
    /\ \A e \in repair_log : e.file # f.file
    /\ LET volunteer_name == SubSeq(f.file, 1, Len(f.file) - 1)
           volunteer_data == ExtractDataFromMaster(data, volunteer_name)
           raises == \/ Cell(volunteer_data[1], 8) = NaNValue
                     \/ \E j \in 1..Len(volunteer_data) :
                           Cell(volunteer_data[j], 5) = NaNValue
           wb == [name |-> volunteer_name,
                  number |-> VolunteerNumber(volunteer_data),
                  rows |-> [j \in 1..Len(volunteer_data) |-> DocRow(j, volunteer_data[j])]]
       IN  \E saved \in BOOLEAN :
             LET status == IF volunteer_data = <<>> THEN "skipped"
                           ELSE IF raises \/ ~saved THEN "failed"
                           ELSE "repaired"
             IN  /\ tab_folder' =
                       IF status = "repaired"
                       THEN SaveFile(SaveFile(tab_folder, f.file \o <<".bak">>, f.doc),
                                     f.file, wb)
                       ELSE tab_folder
                 /\ repair_log' = repair_log \cup
                       {[file |-> f.file, status |-> status,
                         taken |-> volunteer_data, before |-> f.doc]}
    /\ UNCHANGED <<pc, ncols, data, volunteer_records, sorted_keys, next_key,
                   processed_count, save_errors, first_run>>
    /\ UNCHANGED <<exportVars, retryVars, pageVars, contactVars>>
    /\ UNCHANGED <<input_file, input_file_path, district_name, excels_folder, folders,
                   ledger_files, export_log, failed_list_files, retry_log>>

NextRepairFiles ==
    \/ GroupSheet
    \/ RenderVolunteer
    \/ ReturnProcessed
    \/ \E f \in tab_folder : RepairCorruptedFile(f)

SpecRepairFiles == InitRepairFiles /\ [][NextRepairFiles]_vars

\* C30 as stated: for every file that repair_corrupted_files has found
\* rows for, the rows taken from the master file are the source rows of the
\* document that process_sheet wrote to that file name, in the same order
\* (rows told apart by their JSP Id), and the repaired document has those
\* data rows.
C30_RepairTakesRowsOfTheGroup ==
    \A e \in repair_log :
        e.status # "skipped" =>
            /\ [j \in 1..Len(e.taken) |-> Cell(e.taken[j], 3)] =
               [j \in 1..Len(e.before.rows) |-> e.before.rows[j].cells[2]]
            /\ e.status = "repaired" =>
                  \E g \in tab_folder :
                      /\ g.file = e.file
                      /\ [j \in 1..Len(g.doc.rows) |-> g.doc.rows[j].cells[2]] =
                         [j \in 1..Len(e.before.rows) |-> e.before.rows[j].cells[2]]

====
